---- MODULE Spec2Model ----
(***************************************************************************)
(* A model of the request-dispatch core of github.com/gomarten/marten:     *)
(* the route tree (router.go), groups (group.go), the middleware chain     *)
(* (middleware.go), the request context (context.go) and the dispatcher    *)
(* (app.go).                                                               *)
(*                                                                         *)
(* Strings are sequences of chunks.  A chunk is a run of characters that   *)
(* the code never looks into ("users", "id"), or one of the characters the *)
(* code tests for: "/", ":" and "*".  The path "/users/:id" is the         *)
(* sequence <<"/", "users", "/", ":", "id">>.                              *)
(***************************************************************************)
EXTENDS Integers, Sequences, FiniteSets, TLC

VARIABLES
    nodes,          \* the heap of route-tree nodes; nodes[1] is Router.root
    arrays,         \* the heap of backing arrays of []Middleware slices
    middleware,     \* Router.middleware, the global middleware
    trailingSlash,  \* Router.trailingSlash
    errorHandler,   \* App.onError: the default of New or the function given to OnError
    groups,         \* the Group objects created so far
    routes,         \* log: the registrations that returned normally
    lastReg,        \* log: the last call of Handle and how it ended
    lk,             \* the last call of Router.lookup and what it returned
    ctxs,           \* the heap of Ctx objects ever created by pool.New
    pool,           \* App.pool: the Ctx objects that are in the pool
    pc,             \* per worker: where it is in ServeHTTP
    req,            \* per worker: the request it serves and the Ctx it holds
    resp,           \* per worker: what was written to its http.ResponseWriter
    tmo,            \* per worker: the call of the Timeout middleware and its goroutine
    rl              \* the RateLimiter: its mutex, its buckets, and the clock

vars == <<nodes, arrays, middleware, trailingSlash, errorHandler, groups, routes, lastReg,
          lk, ctxs, pool, pc, req, resp, tmo, rl>>

----------------------------------------------------------------------------
(* Bounds of the model *)

MaxRoutes == 2       \* calls of Router.Handle in one run
MaxGlobalMw == 2     \* middleware installed with Router.Use

----------------------------------------------------------------------------
(* strings *)

RECURSIVE TrimLeft(_), TrimRight(_), Split(_), Join(_)

\* strings.HasPrefix(s, c) for a one-character prefix c
HasPrefix(s, c) == Len(s) > 0 /\ s[1] = c

\* strings.HasSuffix(s, c) for a one-character suffix c
HasSuffix(s, c) == Len(s) > 0 /\ s[Len(s)] = c

TrimLeft(s) == IF HasPrefix(s, "/") THEN TrimLeft(Tail(s)) ELSE s

TrimRight(s) == IF HasSuffix(s, "/") THEN TrimRight(SubSeq(s, 1, Len(s) - 1)) ELSE s

\* strings.Trim(s, "/"): every leading and every trailing "/" is removed
Trim(s) == TrimRight(TrimLeft(s))

\* strings.TrimSuffix(s, "/"): at most one trailing "/" is removed
TrimSuffix(s) == IF HasSuffix(s, "/") THEN SubSeq(s, 1, Len(s) - 1) ELSE s

\* strings.Split(s, "/")
Split(s) ==
    IF \A i \in 1..Len(s) : s[i] # "/" THEN <<s>>
    ELSE LET i == CHOOSE k \in 1..Len(s) : s[k] = "/" /\ \A j \in 1..(k - 1) : s[j] # "/"
         IN  <<SubSeq(s, 1, i - 1)>> \o Split(SubSeq(s, i + 1, Len(s)))

\* strings.Join(parts, "/")
Join(parts) ==
    IF Len(parts) = 0 THEN <<>>
    ELSE IF Len(parts) = 1 THEN parts[1]
    ELSE parts[1] \o <<"/">> \o Join(Tail(parts))

\* a splitPath that trims the leading slashes only
splitPathTrimLeft(path) ==
    LET p == TrimLeft(path)
    IN  IF p = <<>> THEN <<>> ELSE Split(p)

\* a splitPath that removes one leading and one trailing slash at most
splitPathTrimOne(path) ==
    LET p == TrimSuffix(IF HasPrefix(path, "/") THEN Tail(path) ELSE path)
    IN  IF p = <<>> THEN <<>> ELSE Split(p)

splitPath(path) ==
    LET p == Trim(path)
    IN  IF p = <<>> THEN <<>> ELSE Split(p)

----------------------------------------------------------------------------
(* []Middleware slices: a slice is a window [1..len] on a backing array;   *)
(* its capacity is the length of the array.  arr = 0 is the nil slice.     *)

NilSlice == [arr |-> 0, len |-> 0]

Cap(as, s) == IF s.arr = 0 THEN 0 ELSE Len(as[s.arr])

Elems(as, s) == IF s.arr = 0 THEN <<>> ELSE SubSeq(as[s.arr], 1, s.len)

\* a variadic call f(a, b, c) passes a fresh array of exactly its arguments,
\* and the nil slice when there are none
Variadic(as, args) ==
    IF Len(args) = 0 THEN [as |-> as, s |-> NilSlice]
    ELSE [as |-> Append(as, args), s |-> [arr |-> Len(as) + 1, len |-> Len(args)]]

\* the value of the array slots no slice has written yet
NilMw == <<"nil", 0>>

\* the capacities the allocator has for arrays of 8-byte elements (func values
\* on 64-bit builds): the size classes 8, 16, 24, 32, 48, 64, ... bytes
SizeClasses == {1, 2, 3, 4, 6, 8, 10, 12, 14, 16}

RoundUpCap(n) == CHOOSE c \in SizeClasses : c >= n /\ \A d \in SizeClasses : d >= n => c <= d

\* the capacity append gives the new array when the old one is too small:
\* twice the old capacity, or the needed length if that is more
GrowCap(oldCap, newLen) == RoundUpCap(IF newLen > 2 * oldCap THEN newLen ELSE 2 * oldCap)

\* append(s, elems...): writes into the array of s when its capacity allows,
\* and copies to a new array otherwise
GoAppend(as, s, elems) ==
    IF Len(elems) = 0 THEN [as |-> as, s |-> s]
    ELSE IF s.len + Len(elems) <= Cap(as, s)
    THEN [as |-> [as EXCEPT ![s.arr] =
                     [i \in 1..Len(@) |->
                         IF i > s.len /\ i <= s.len + Len(elems) THEN elems[i - s.len] ELSE @[i]]],
          s  |-> [arr |-> s.arr, len |-> s.len + Len(elems)]]
    ELSE [as |-> Append(as, [i \in 1..GrowCap(Cap(as, s), s.len + Len(elems)) |->
                                IF i <= s.len THEN as[s.arr][i]
                                ELSE IF i <= s.len + Len(elems) THEN elems[i - s.len]
                                ELSE NilMw]),
          s  |-> [arr |-> Len(as) + 1, len |-> s.len + Len(elems)]]

----------------------------------------------------------------------------
(* the route tree *)

Methods == {"GET", "POST"}

NilHandler == [kind |-> "nil", id |-> 0, err |-> FALSE]

NewNode(segment) ==
    [path |-> segment, children |-> <<>>, param |-> 0, wildcard |-> 0,
     handlers |-> <<>>, mw |-> NilSlice]

NewRouter == <<NewNode(<<>>)>>

\* a search of the children that finds nothing
FindChildNone(ns, n, segment) == 0

\* the first child of n whose path is the segment, 0 if there is none
FindChild(ns, n, segment) ==
    LET hits == {i \in 1..Len(ns[n].children) : ns[ns[n].children[i]].path = segment}
    IN  IF hits = {} THEN 0
        ELSE ns[n].children[CHOOSE i \in hits : \A j \in hits : i <= j]

\* findOrCreateWithConflictCheck without the comparison of parameter names
findOrCreateNoConflictCheck(ns, n, segment) ==
    LET fresh == Len(ns) + 1
        made  == Append(ns, NewNode(segment))
    IN  IF HasPrefix(segment, "*") THEN
            IF ns[n].wildcard = 0
            THEN [ns |-> [made EXCEPT ![n].wildcard = fresh], node |-> fresh, panic |-> FALSE]
            ELSE [ns |-> ns, node |-> ns[n].wildcard, panic |-> FALSE]
        ELSE IF HasPrefix(segment, ":") THEN
            IF ns[n].param = 0
            THEN [ns |-> [made EXCEPT ![n].param = fresh], node |-> fresh, panic |-> FALSE]
            ELSE [ns |-> ns, node |-> ns[n].param, panic |-> FALSE]
        ELSE IF FindChild(ns, n, segment) # 0
            THEN [ns |-> ns, node |-> FindChild(ns, n, segment), panic |-> FALSE]
            ELSE [ns |-> [made EXCEPT ![n].children = Append(@, fresh)],
                  node |-> fresh, panic |-> FALSE]

\* findOrCreateWithConflictCheck installing the new parameter node before it
\* compares the names
findOrCreateInstallThenCheck(ns, n, segment) ==
    LET fresh == Len(ns) + 1
        made  == Append(ns, NewNode(segment))
    IN  IF HasPrefix(segment, "*") THEN
            IF ns[n].wildcard = 0
            THEN [ns |-> [made EXCEPT ![n].wildcard = fresh], node |-> fresh, panic |-> FALSE]
            ELSE [ns |-> ns, node |-> ns[n].wildcard, panic |-> FALSE]
        ELSE IF HasPrefix(segment, ":") THEN
            IF ns[n].param = 0
            THEN [ns |-> [made EXCEPT ![n].param = fresh], node |-> fresh, panic |-> FALSE]
            ELSE IF ns[ns[n].param].path # segment
            THEN [ns |-> [made EXCEPT ![n].param = fresh], node |-> 0, panic |-> TRUE]
            ELSE [ns |-> ns, node |-> ns[n].param, panic |-> FALSE]
        ELSE IF FindChild(ns, n, segment) # 0
            THEN [ns |-> ns, node |-> FindChild(ns, n, segment), panic |-> FALSE]
            ELSE [ns |-> [made EXCEPT ![n].children = Append(@, fresh)],
                  node |-> fresh, panic |-> FALSE]

\* a new node is appended to the heap; parent n points to it
findOrCreateWithConflictCheck(ns, n, segment) ==
    LET fresh == Len(ns) + 1
        made  == Append(ns, NewNode(segment))
    IN  IF HasPrefix(segment, "*") THEN
            IF ns[n].wildcard = 0
            THEN [ns |-> [made EXCEPT ![n].wildcard = fresh], node |-> fresh, panic |-> FALSE]
            ELSE [ns |-> ns, node |-> ns[n].wildcard, panic |-> FALSE]
        ELSE IF HasPrefix(segment, ":") THEN
            IF ns[n].param = 0
            THEN [ns |-> [made EXCEPT ![n].param = fresh], node |-> fresh, panic |-> FALSE]
            ELSE IF ns[ns[n].param].path # segment
            THEN [ns |-> ns, node |-> 0, panic |-> TRUE]
            ELSE [ns |-> ns, node |-> ns[n].param, panic |-> FALSE]
        ELSE IF FindChild(ns, n, segment) # 0
            THEN [ns |-> ns, node |-> FindChild(ns, n, segment), panic |-> FALSE]
            ELSE [ns |-> [made EXCEPT ![n].children = Append(@, fresh)],
                  node |-> fresh, panic |-> FALSE]

RECURSIVE HandleWalk(_, _, _, _)
\* the loop of Router.Handle over parts[i..]; a panic leaves the loop with
\* whatever the earlier iterations have already done to the tree
HandleWalk(ns, current, parts, i) ==
    IF i > Len(parts) THEN [ns |-> ns, node |-> current, panic |-> FALSE]
    ELSE LET step == findOrCreateWithConflictCheck(ns, current, parts[i])
         IN  IF step.panic THEN step
             ELSE HandleWalk(step.ns, step.node, parts, i + 1)

\* Router.Handle(method, path, h, mw...): the tree after the call, and
\* whether the call panicked
RouterHandle(ns, method, path, h, mw) ==
    LET walk == HandleWalk(ns, 1, splitPath(path), 1)
    IN  IF walk.panic THEN [ns |-> walk.ns, panic |-> TRUE]
        ELSE [ns |-> [walk.ns EXCEPT ![walk.node].handlers = (method :> h) @@ @,
                                     ![walk.node].mw = mw],
              panic |-> FALSE]

----------------------------------------------------------------------------
(* lookup *)

\* the orders in which a range over a map[string]Handler can yield its keys
MethodOrders == {<<"GET", "POST">>, <<"POST", "GET">>}

\* the keys of map m, collected by a range loop that iterates in order iter
MapKeys(m, iter) == SelectSeq(iter, LAMBDA k : k \in DOMAIN m)

RECURSIVE LookupWalkParamFirst(_, _, _, _, _)
\* the loop of Router.lookup trying the parameter child before the static children
LookupWalkParamFirst(ns, current, parts, i, params) ==
    IF i > Len(parts) THEN [found |-> TRUE, node |-> current, params |-> params]
    ELSE IF ns[current].param # 0
    THEN LookupWalkParamFirst(ns, ns[current].param, parts, i + 1,
                    (Tail(ns[ns[current].param].path) :> parts[i]) @@ params)
    ELSE IF FindChild(ns, current, parts[i]) # 0
    THEN LookupWalkParamFirst(ns, FindChild(ns, current, parts[i]), parts, i + 1, params)
    ELSE IF ns[current].wildcard # 0
    THEN [found |-> TRUE, node |-> ns[current].wildcard,
          params |-> (Tail(ns[ns[current].wildcard].path)
                        :> Join(SubSeq(parts, i, Len(parts)))) @@ params]
    ELSE [found |-> FALSE, node |-> 0, params |-> params]

RECURSIVE LookupWalkWildcardFirst(_, _, _, _, _)
\* the loop of Router.lookup trying the wildcard child before the parameter child
LookupWalkWildcardFirst(ns, current, parts, i, params) ==
    IF i > Len(parts) THEN [found |-> TRUE, node |-> current, params |-> params]
    ELSE IF FindChild(ns, current, parts[i]) # 0
    THEN LookupWalkWildcardFirst(ns, FindChild(ns, current, parts[i]), parts, i + 1, params)
    ELSE IF ns[current].wildcard # 0
    THEN [found |-> TRUE, node |-> ns[current].wildcard,
          params |-> (Tail(ns[ns[current].wildcard].path)
                        :> Join(SubSeq(parts, i, Len(parts)))) @@ params]
    ELSE IF ns[current].param # 0
    THEN LookupWalkWildcardFirst(ns, ns[current].param, parts, i + 1,
                    (Tail(ns[ns[current].param].path) :> parts[i]) @@ params)
    ELSE [found |-> FALSE, node |-> 0, params |-> params]

RECURSIVE LookupWalk(_, _, _, _, _)
\* the loop of Router.lookup over parts[i..]
LookupWalk(ns, current, parts, i, params) ==
    IF i > Len(parts) THEN [found |-> TRUE, node |-> current, params |-> params]
    ELSE IF FindChild(ns, current, parts[i]) # 0
    THEN LookupWalk(ns, FindChild(ns, current, parts[i]), parts, i + 1, params)
    ELSE IF ns[current].param # 0
    THEN LookupWalk(ns, ns[current].param, parts, i + 1,
                    (Tail(ns[ns[current].param].path) :> parts[i]) @@ params)
    ELSE IF ns[current].wildcard # 0
    THEN [found |-> TRUE, node |-> ns[current].wildcard,
          params |-> (Tail(ns[ns[current].wildcard].path)
                        :> Join(SubSeq(parts, i, Len(parts)))) @@ params]
    ELSE [found |-> FALSE, node |-> 0, params |-> params]

\* a lookup that does not try the wildcard child with an empty suffix
lookupNoEmptyWildcard(ns, method, path, params, iter) ==
    LET walk    == LookupWalk(ns, 1, splitPath(path), 1, params)
        current == ns[walk.node]
        nothing == [h |-> NilHandler, mw |-> NilSlice, allowed |-> <<>>]
    IN  IF ~walk.found THEN nothing @@ [params |-> walk.params]
        ELSE IF method \in DOMAIN current.handlers
        THEN [h |-> current.handlers[method], mw |-> current.mw, allowed |-> <<>>,
              params |-> walk.params]
        ELSE [h |-> NilHandler, mw |-> NilSlice,
              allowed |-> MapKeys(current.handlers, iter), params |-> walk.params]

\* Router.lookup(method, path, params); params is written in place, so the
\* bindings made on the way are part of the result whatever is returned
lookup(ns, method, path, params, iter) ==
    LET walk    == LookupWalk(ns, 1, splitPath(path), 1, params)
        current == ns[walk.node]
        wild    == ns[current.wildcard]
        bound   == (Tail(wild.path) :> <<>>) @@ walk.params
        nothing == [h |-> NilHandler, mw |-> NilSlice, allowed |-> <<>>]
    IN  IF ~walk.found THEN nothing @@ [params |-> walk.params]
        ELSE IF method \in DOMAIN current.handlers
        THEN [h |-> current.handlers[method], mw |-> current.mw, allowed |-> <<>>,
              params |-> walk.params]
        ELSE IF current.wildcard # 0 /\ method \in DOMAIN wild.handlers
        THEN [h |-> wild.handlers[method], mw |-> wild.mw, allowed |-> <<>>,
              params |-> bound]
        ELSE IF current.wildcard # 0 /\ DOMAIN wild.handlers # {}
        THEN [h |-> NilHandler, mw |-> NilSlice, allowed |-> MapKeys(wild.handlers, iter),
              params |-> bound]
        ELSE [h |-> NilHandler, mw |-> NilSlice,
              allowed |-> MapKeys(current.handlers, iter),
              params |-> IF current.wildcard # 0 THEN bound ELSE walk.params]

TrailingSlashIgnore == 0
TrailingSlashRedirect == 1
TrailingSlashStrict == 2

\* lookupWithTrailingSlash without the branch of TrailingSlashRedirect
AfterLookupNoRedirect(mode, path, found) ==
    IF found.h # NilHandler \/ Len(found.allowed) > 0
    THEN found @@ [redirect |-> <<>>]
    ELSE [h |-> NilHandler, mw |-> NilSlice, allowed |-> <<>>, params |-> found.params,
          redirect |-> <<>>]

\* Router.lookupWithTrailingSlash from the call of r.lookup on; found is what
\* r.lookup returned
AfterLookup(mode, path, found) ==
    LET hasTrailingSlash == Len(path) > 1 /\ HasSuffix(path, "/")
        none == [h |-> NilHandler, mw |-> NilSlice, allowed |-> <<>>, params |-> found.params]
    IN  IF (found.h # NilHandler \/ Len(found.allowed) > 0)
        THEN IF mode = TrailingSlashRedirect /\ hasTrailingSlash
             THEN none @@ [redirect |-> TrimSuffix(path)]
             ELSE found @@ [redirect |-> <<>>]
        ELSE none @@ [redirect |-> <<>>]

\* lookupWithTrailingSlash without the test of TrailingSlashStrict
lookupWithTrailingSlashNoStrict(ns, mode, method, path, params, iter) ==
    AfterLookup(mode, path, lookup(ns, method, path, params, iter))

\* Router.lookupWithTrailingSlash(method, path, params)
lookupWithTrailingSlash(ns, mode, method, path, params, iter) ==
    IF mode = TrailingSlashStrict /\ Len(path) > 1 /\ HasSuffix(path, "/")
    THEN [h |-> NilHandler, mw |-> NilSlice, allowed |-> <<>>, redirect |-> <<>>,
          params |-> params]
    ELSE AfterLookup(mode, path, lookup(ns, method, path, params, iter))

----------------------------------------------------------------------------
(* the inputs of the model *)

\* the path "/" ++ parts[1] ++ "/" ++ parts[2] ...
PathOf(parts) == <<"/">> \o Join(parts)

users == <<"users">>
me == <<"me">>
n99 == <<"99">>
id == <<":", "id">>
name == <<":", "name">>
star == <<"*", "p">>

\* the route patterns registered on the router
RoutePaths ==
    { PathOf(<<>>), PathOf(<<users>>), PathOf(<<users, me>>), PathOf(<<users, id>>),
      PathOf(<<users, name>>), PathOf(<<users, star>>), PathOf(<<id>>),
      PathOf(<<id, me>>), PathOf(<<name, users>>), PathOf(<<star>>) }

ReqMethods == Methods \cup {"DELETE"}

ReqSegs == {users, me, n99}

\* the request paths: up to two segments, and one with a trailing slash
ReqPaths ==
    {PathOf(<<>>), PathOf(<<users>>) \o <<"/">>} \cup {PathOf(<<a>>) : a \in ReqSegs}
        \cup {PathOf(<<a, b>>) : a \in ReqSegs, b \in ReqSegs}

\* the goroutines that call App.ServeHTTP
Workers == {"w1", "w2"}

\* the worker of the specifications that serve one request after the other
Sequential == {"w1"}

\* a worker that has served nothing yet
NoRequest == [method |-> "", path |-> <<>>, c |-> 0, stale |-> <<>>]

\* a response writer nothing has been written to
NewWriter == [codes |-> <<>>, header |-> <<>>, body |-> <<>>, order |-> <<>>, errs |-> 0]

\* a worker that is not in the Timeout middleware: h is the position of the
\* goroutine that runs next(c), m the position of the middleware itself,
\* done the number of values in the channel done, fired the deadline
NoTimeout == [h |-> "none", m |-> "none", done |-> 0, fired |-> FALSE, timedOut |-> FALSE]

RateRequests == 2    \* cfg.Requests
RateWindow == 1      \* cfg.Window, in ticks of the clock
MaxServed == 3       \* requests that enter the rate limiter in one run

\* the clock stops when cleanup can delete a bucket made at time 0
MaxTime == RateWindow * 3 + 1

\* NewRateLimiter(cfg): no bucket, the mutex free.  heap holds the buckets
\* ever made and clients maps a key to its bucket; now is the clock that
\* time.Now() reads; passed counts, per key, the requests handed to next
\* since the key's bucket was last filled; b is the bucket each worker holds
\* and seen the value of b.reset it read under the mutex, both 0 outside
\* the middleware; served counts the requests that entered the middleware
NewRateLimiter ==
    [mu |-> "", heap |-> <<>>, clients |-> <<>>, now |-> 0, passed |-> <<>>, served |-> 0,
     b |-> [w \in Workers |-> 0], seen |-> [w \in Workers |-> 0]]

NoLookup ==
    [valid |-> FALSE, method |-> "", path |-> <<>>, h |-> NilHandler, mw |-> NilSlice,
     allowed |-> <<>>, params |-> <<>>]

----------------------------------------------------------------------------
(* the initial state: marten.New() *)

Init ==
    /\ nodes = NewRouter
    /\ arrays = <<>>
    /\ middleware = <<>>
    /\ trailingSlash = TrailingSlashIgnore
    /\ errorHandler = "default"
    /\ groups = <<>>
    /\ routes = <<>>
    /\ lastReg = [n |-> 0, method |-> "", parts |-> <<>>, panic |-> FALSE]
    /\ lk = NoLookup
    /\ ctxs = <<>>
    /\ pool = {}
    /\ pc = [w \in Workers |-> "idle"]
    /\ req = [w \in Workers |-> NoRequest]
    /\ resp = [w \in Workers |-> NewWriter]
    /\ tmo = [w \in Workers |-> NoTimeout]
    /\ rl = NewRateLimiter

----------------------------------------------------------------------------
(* registration *)

\* the handler passed by the n-th call of Handle
UserHandler(n) == [kind |-> "user", id |-> n, err |-> FALSE]

\* the n-th call of the program text to Router.Handle, with the handler h and
\* the slice mw (on the heap as) as its middleware
RegisterHandler(h, n, method, path, as, mw) ==
    /\ LET r == RouterHandle(nodes, method, path, h, mw)
       IN  /\ nodes' = r.ns
           /\ routes' = IF r.panic THEN routes
                        ELSE Append(routes, [method |-> method, parts |-> splitPath(path),
                                             h |-> h, mw |-> Elems(as, mw)])
           /\ lastReg' = [n |-> n, method |-> method,
                          parts |-> splitPath(path), panic |-> r.panic]
    /\ arrays' = as
    /\ lk' = NoLookup
    /\ UNCHANGED <<middleware, trailingSlash, errorHandler, ctxs, pool, pc, req, resp, tmo, rl>>

\* the n-th call of Router.Handle, with the n-th handler of the program
Register(n, method, path, as, mw) == RegisterHandler(UserHandler(n), n, method, path, as, mw)

\* app.Handle(method, path, h, mw...), with the middleware given as arguments
Handle(n, method, path, mwArgs) ==
    /\ Register(n, method, path, Variadic(arrays, mwArgs).as, Variadic(arrays, mwArgs).s)
    /\ UNCHANGED groups

\* a call of r.lookup with a fresh params map
Lookup(method, path, iter) ==
    /\ ~lk.valid        \* lk keeps one call; the next registration clears it
    /\ lk' = [valid |-> TRUE, method |-> method, path |-> path]
                @@ lookup(nodes, method, path, <<>>, iter)
    /\ UNCHANGED <<nodes, arrays, middleware, trailingSlash, errorHandler, groups, routes, lastReg,
                   ctxs, pool, pc, req, resp, tmo, rl>>

RouterHandleStep ==
    /\ lastReg.n < MaxRoutes
    /\ \E method \in Methods, path \in RoutePaths : Handle(lastReg.n + 1, method, path, <<>>)

RouterLookupStep ==
    \E method \in ReqMethods, path \in ReqPaths, iter \in MethodOrders :
        Lookup(method, path, iter)

NextRouter == RouterHandleStep \/ RouterLookupStep

SpecRouter == Init /\ [][NextRouter]_vars

----------------------------------------------------------------------------
(* what the registrations mean: patterns, matching and preference *)

IsParam(segment) == HasPrefix(segment, ":")

IsWildcard(segment) == HasPrefix(segment, "*")

\* static 0, parameter 1, wildcard 2
Rank(segment) == IF IsWildcard(segment) THEN 2 ELSE IF IsParam(segment) THEN 1 ELSE 0

\* a wildcard, if any, is the last segment of the pattern
WellFormed(pattern) == \A i \in 1..Len(pattern) : IsWildcard(pattern[i]) => i = Len(pattern)

RECURSIVE MatchesFrom(_, _, _)
\* pattern[i..] matches parts[i..]: a static segment matches an equal segment, a
\* parameter any one segment, a wildcard the whole (possibly empty) rest
MatchesFrom(pattern, parts, i) ==
    IF i > Len(pattern) THEN i > Len(parts)
    ELSE IF IsWildcard(pattern[i]) THEN i = Len(pattern)
    ELSE IF i > Len(parts) THEN FALSE
    ELSE /\ IsParam(pattern[i]) \/ pattern[i] = parts[i]
         /\ MatchesFrom(pattern, parts, i + 1)

Matches(pattern, parts) == MatchesFrom(pattern, parts, 1)

\* pattern a comes strictly before pattern b: at the first segment where they
\* differ a has the lower rank, or a has ended
LexBefore(a, b) ==
    \E i \in 1..Len(b) :
        /\ i <= Len(a) + 1
        /\ SubSeq(a, 1, i - 1) = SubSeq(b, 1, i - 1)
        /\ i = Len(a) + 1 \/ Rank(a[i]) < Rank(b[i])

\* the registrations of the log that no later registration has overwritten
Live == {i \in 1..Len(routes) :
            \A j \in (i + 1)..Len(routes) :
                routes[j].method # routes[i].method \/ routes[j].parts # routes[i].parts}

NoDuplicates == Live = 1..Len(routes)

\* the live registrations for the method whose pattern matches the path
Matching(method, path) ==
    {i \in Live : routes[i].method = method /\ Matches(routes[i].parts, splitPath(path))}

\* the two patterns have parameters of different names at the same position
ParamConflict(a, b) ==
    \E k \in 1..Len(a) :
        /\ k <= Len(b)
        /\ SubSeq(a, 1, k - 1) = SubSeq(b, 1, k - 1)
        /\ IsParam(a[k]) /\ IsParam(b[k]) /\ a[k] # b[k]

Orders(n) == {f \in [1..n -> 1..n] : \A i, j \in 1..n : f[i] = f[j] => i = j}

RECURSIVE BuildTree(_, _, _)
\* the tree after registering log[order[i]], log[order[i+1]], ... on tree ns
BuildTree(ns, log, order) ==
    IF order = <<>> THEN ns
    ELSE LET r == log[Head(order)]
         IN  BuildTree(RouterHandle(ns, r.method, PathOf(r.parts), r.h, NilSlice).ns,
                       log, Tail(order))

----------------------------------------------------------------------------
(* claims about the route tree, checked under SpecRouter *)

\* the registration whose handler the last lookup returned
Reached == CHOOSE i \in 1..Len(routes) : routes[i].h = lk.h

\* at every position the walk took, no child of a preferred kind was there
\* for the request segment
PreferenceRespected ==
    LET pattern == routes[Reached].parts
        parts   == splitPath(lk.path)
    IN  \A i \in 1..Len(pattern) : \A q \in 1..Len(routes) :
            LET other == routes[q].parts
            IN  (/\ i <= Len(parts) /\ i <= Len(other)
                 /\ SubSeq(other, 1, i - 1) = SubSeq(pattern, 1, i - 1)
                 /\ Rank(other[i]) < Rank(pattern[i]))
                => (Rank(other[i]) = 0 /\ other[i] # parts[i])

\* C1: for routes registered without conflict, the handler reached and the
\* parameters bound by a lookup are the same for every order of registration,
\* and at each level a static child equal to the segment was preferred over the
\* parameter child and the parameter child over the wildcard child.
C1_OrderIndependent ==
    (lk.valid /\ NoDuplicates) =>
        /\ \A order \in Orders(Len(routes)) :
              LET other == lookup(BuildTree(NewRouter, routes, order), lk.method, lk.path,
                                  <<>>, <<"GET", "POST">>)
              IN  other.h = lk.h /\ other.params = lk.params
        /\ lk.h # NilHandler => PreferenceRespected

\* GET /users/:id was registered before GET /users/me, and GET /users/99 reached
\* the parameter handler with id = "99"
C1_Witness ==
    /\ lk.valid /\ Len(routes) = 2
    /\ routes[1].parts = <<users, id>> /\ routes[2].parts = <<users, me>>
    /\ routes[1].method = "GET" /\ routes[2].method = "GET"
    /\ lk.method = "GET" /\ lk.path = PathOf(<<users, n99>>)
    /\ lk.h = routes[1].h /\ lk.params = (<<"id">> :> n99)

\* C2 as stated: whenever a route for the method matches the path, lookup
\* returns a handler, the one of the first matching pattern in the order
\* static < parameter < wildcard.
C2_AsStated ==
    (lk.valid /\ Matching(lk.method, lk.path) # {}) =>
        \E i \in Matching(lk.method, lk.path) :
            /\ lk.h = routes[i].h
            /\ \A j \in Matching(lk.method, lk.path) \ {i} :
                  LexBefore(routes[i].parts, routes[j].parts)

\* C2 (amended): whenever lookup returns a handler, it is the handler of a
\* route for the method whose pattern matches the path, and that pattern is
\* the first of the matching patterns in the order static < parameter < wildcard.
C2_FirstMatchWhenFound ==
    (lk.valid /\ lk.h # NilHandler) =>
        \E i \in Matching(lk.method, lk.path) :
            /\ lk.h = routes[i].h
            /\ \A j \in Matching(lk.method, lk.path) \ {i} :
                  LexBefore(routes[i].parts, routes[j].parts)

\* two GET routes match GET /users/me and lookup returned the static one
C2_Witness ==
    /\ lk.valid /\ lk.h # NilHandler
    /\ Cardinality(Matching(lk.method, lk.path)) = 2
    /\ routes[Reached].parts = <<users, me>>

\* C8: a registration panics exactly when one of its parameter segments has
\* another name than the parameter segment a registered route has at the same
\* position, whatever the methods and the segments that follow.
C8_ConflictPanics ==
    lastReg.n > 0 =>
        (lastReg.panic <=>
            \E i \in 1..Len(routes) : ParamConflict(routes[i].parts, lastReg.parts))

\* POST /:name/users was refused after GET /:id/me
C8_Witness ==
    /\ lastReg.panic /\ lastReg.method = "POST" /\ lastReg.parts = <<name, users>>
    /\ Len(routes) = 1 /\ routes[1].method = "GET" /\ routes[1].parts = <<id, me>>

\* C9: a registration that panics leaves the tree, the middleware arrays and
\* the log of routes as they were.
C9_FailedInstallsNothing ==
    [][(lastReg'.n # lastReg.n /\ lastReg'.panic) =>
          (nodes' = nodes /\ arrays' = arrays /\ routes' = routes)]_vars

\* a registration has panicked on a tree that holds a route
C9_Witness == lastReg.panic /\ Len(nodes) > 1 /\ Len(routes) > 0

\* the registrations of the method of the last lookup whose pattern ends in
\* a wildcard and matches the path of the lookup
WildcardMatching ==
    {i \in Matching(lk.method, lk.path) :
        Len(routes[i].parts) > 0 /\ IsWildcard(routes[i].parts[Len(routes[i].parts)])}

\* the suffix of the request segments that the wildcard of the pattern takes
Suffix(pattern, parts) == Join(SubSeq(parts, Len(pattern), Len(parts)))

\* no registered pattern leads the walk for parts away from the pattern: none
\* has, where it leaves the pattern, a static segment equal to the request
\* segment or a parameter where the pattern has a less preferred segment
NotPreempted(pattern, parts) ==
    \A q \in 1..Len(routes) : \A j \in 1..Len(pattern) :
        (/\ j <= Len(routes[q].parts) /\ j <= Len(parts)
         /\ SubSeq(routes[q].parts, 1, j - 1) = SubSeq(pattern, 1, j - 1))
        => ~(/\ Rank(routes[q].parts[j]) < Rank(pattern[j])
             /\ routes[q].parts[j] = parts[j] \/ IsParam(routes[q].parts[j]))

\* the request is for the prefix of the pattern itself and a route of the
\* method is registered on the prefix
PrefixHandled(pattern, parts) ==
    /\ Len(parts) = Len(pattern) - 1
    /\ \E q \in Live : /\ routes[q].method = lk.method
                       /\ routes[q].parts = SubSeq(pattern, 1, Len(pattern) - 1)

\* C16, as stated: a request whose path extends the prefix of a wildcard
\* route by zero or more segments reaches the handler of the route, with the
\* name bound to the remaining segments joined by "/".
C16_AsStated ==
    lk.valid =>
        \A i \in WildcardMatching :
            /\ lk.h = routes[i].h
            /\ lk.params[Tail(routes[i].parts[Len(routes[i].parts)])]
                  = Suffix(routes[i].parts, splitPath(lk.path))

\* C16, amended: the same, for the requests that the walk brings to the
\* wildcard: no registered route has a static or parameter segment that the
\* walk prefers on the way, and when the suffix is empty no route of the
\* method is registered on the prefix itself.
C16_WildcardSuffix ==
    lk.valid =>
        \A i \in WildcardMatching :
            (/\ NotPreempted(routes[i].parts, splitPath(lk.path))
             /\ ~PrefixHandled(routes[i].parts, splitPath(lk.path)))
            => /\ lk.h = routes[i].h
               /\ lk.params[Tail(routes[i].parts[Len(routes[i].parts)])]
                     = Suffix(routes[i].parts, splitPath(lk.path))

\* GET /users/ has reached the handler of GET /users/*p with p bound to the
\* empty string, on a tree where POST /users is registered
C16_Witness ==
    /\ lk.valid /\ lk.method = "GET" /\ lk.path = PathOf(<<users>>) \o <<"/">>
    /\ \E i \in WildcardMatching :
          /\ routes[i].parts = <<users, star>>
          /\ lk.h = routes[i].h
          /\ lk.params[Tail(star)] = <<>>
    /\ \E q \in Live : routes[q].method = "POST" /\ routes[q].parts = <<users>>

----------------------------------------------------------------------------
(* Ctx and the http.ResponseWriter *)

StatusOK == 200
StatusCreated == 201
StatusNoContent == 204
StatusMovedPermanently == 301
StatusBadRequest == 400
StatusTooManyRequests == 429
StatusNotFound == 404
StatusMethodNotAllowed == 405
StatusInternalServerError == 500
StatusGatewayTimeout == 504

\* &Ctx{params: make(map[string]string), store: make(map[string]any)}
NewCtx ==
    [params |-> <<>>, store |-> <<>>, written |-> FALSE, statusCode |-> 0,
     requestID |-> "", writer |-> ""]

\* a Reset that leaves the store and the request id of the last request
ResetKeepStore(c, w) ==
    [c EXCEPT !.writer = w, !.written = FALSE, !.statusCode = 0, !.params = <<>>]

\* Ctx.Reset(w, r)
Reset(c, w) ==
    [c EXCEPT !.writer = w, !.written = FALSE, !.statusCode = 0, !.requestID = "",
              !.params = <<>>, !.store = <<>>]

\* a Text that writes the status line whether or not one was written
TextAlways(st, code, text) ==
    [c   |-> [st.c EXCEPT !.written = TRUE, !.statusCode = code],
     out |-> [st.out EXCEPT
                 !.header = ("Content-Type" :> <<"text/plain; charset=utf-8">>) @@ @,
                 !.codes = Append(@, code),
                 !.body = Append(@, text)]]

\* Ctx.Text(code, text) on the pair st = [c |-> the Ctx, out |-> its writer]
Text(st, code, text) ==
    LET head == IF st.c.written THEN st
                ELSE [c   |-> [st.c EXCEPT !.written = TRUE, !.statusCode = code],
                      out |-> [st.out EXCEPT
                                  !.header = ("Content-Type" :> <<"text/plain; charset=utf-8">>) @@ @,
                                  !.codes = Append(@, code)]]
    IN  [head EXCEPT !.out.body = Append(@, text)]

\* Ctx.Status(code)
Status(st, code) ==
    IF st.c.written THEN st
    ELSE [c   |-> [st.c EXCEPT !.written = TRUE, !.statusCode = code],
          out |-> [st.out EXCEPT !.codes = Append(@, code)]]

\* Ctx.JSON(code, v)
JSON(st, code, v) ==
    LET head == IF st.c.written THEN st
                ELSE [c   |-> [st.c EXCEPT !.written = TRUE, !.statusCode = code],
                      out |-> [st.out EXCEPT
                                  !.header = ("Content-Type" :> <<"application/json; charset=utf-8">>) @@ @,
                                  !.codes = Append(@, code)]]
    IN  [head EXCEPT !.out.body = Append(@, v)]

\* Ctx.ServerError(message)
ServerError(st, message) == JSON(st, StatusInternalServerError, message)

\* Ctx.Param(name)
Param(c, n) == IF n \in DOMAIN c.params THEN c.params[n] ELSE <<>>

\* Ctx.Set(key, value)
Set(st, key, value) == [st EXCEPT !.c.store = (key :> value) @@ @]

\* the identifiers rand.Read can produce
RequestIDs == {"9f86d081884c7d65"}

\* Ctx.RequestID() of a request without X-Request-ID header, rand.Read giving rid
RequestID(st, rid) ==
    IF st.c.requestID = "" THEN [st EXCEPT !.c.requestID = rid] ELSE st

----------------------------------------------------------------------------
(* middleware and handlers *)

\* mw(next) for a middleware that logs, calls next, logs and returns next's error
Wrap(mw, next) == [kind |-> "wrap", mw |-> mw, next |-> next]

RECURSIVE ChainFrom(_, _, _)
\* the loop of Chain: for i := len(mw)-1; i >= 0; i-- { final = mw[i](final) }
ChainFrom(mw, i, final) ==
    IF i < 1 THEN final ELSE ChainFrom(mw, i - 1, Wrap(mw[i], final))

\* a Chain whose loop runs from the first middleware to the last
ChainAscending(mw, final) ==
    ChainFrom([i \in 1..Len(mw) |-> mw[Len(mw) + 1 - i]], Len(mw), final)

\* Chain(mw...)(final)
Chain(mw, final) == ChainFrom(mw, Len(mw), final)

\* Router.notFound as NewRouter sets it
NotFoundHandler == [kind |-> "notFound", id |-> 0, err |-> FALSE]

\* the handler ServeHTTP makes for a path whose method is not registered
MethodNotAllowedHandler == [kind |-> "m405", id |-> 0, err |-> FALSE]

RECURSIVE Exec(_, _, _)
\* the call h(c): the Ctx and the writer after it, and the error it returned
Exec(h, st, rid) ==
    IF h.kind = "wrap" /\ h.mw[1] = "s" THEN
        \* order = append(order, "before"); return c.BadRequest("stopped")
        JSON([st EXCEPT !.out.order = Append(@, <<h.mw, "before">>)],
             StatusBadRequest, <<"stopped">>) @@ [err |-> FALSE]
    ELSE IF h.kind = "wrap" /\ h.mw[1] = "e" THEN
        \* order = append(order, "before"); return errors.New("stopped")
        [st EXCEPT !.out.order = Append(@, <<h.mw, "before">>)] @@ [err |-> TRUE]
    ELSE IF h.kind = "wrap" THEN
        LET inner == Exec(h.next, [st EXCEPT !.out.order = Append(@, <<h.mw, "before">>)], rid)
        IN  [inner EXCEPT !.out.order = Append(@, <<h.mw, "after">>)]
    ELSE IF h.kind = "notFound" THEN
        Text(st, StatusNotFound, "Not Found") @@ [err |-> FALSE]
    ELSE IF h.kind = "m405" THEN
        Text(st, StatusMethodNotAllowed, "Method Not Allowed") @@ [err |-> FALSE]
    ELSE IF h.kind = "double" THEN
        \* c.Text(200, "first"); c.Text(201, "second"); return nil
        Text(Text([st EXCEPT !.out.order = Append(@, <<<<"h", h.id>>, "handler">>)],
                  StatusOK, <<"first">>), StatusCreated, <<"second">>) @@ [err |-> FALSE]
    ELSE IF h.kind = "restatus" THEN
        \* c.NoContent(); return c.ServerError("late")
        ServerError(Status([st EXCEPT !.out.order = Append(@, <<<<"h", h.id>>, "handler">>)],
                           StatusNoContent), <<"late">>) @@ [err |-> FALSE]
    ELSE IF h.kind = "writefail" THEN
        \* c.Text(200, "partial"); return errors.New("failed")
        Text([st EXCEPT !.out.order = Append(@, <<<<"h", h.id>>, "handler">>)],
             StatusOK, <<"partial">>) @@ [err |-> TRUE]
    ELSE
        LET ran == [st EXCEPT !.out.order = Append(@, <<<<"h", h.id>>, "handler">>)]
        IN  IF h.err THEN ran @@ [err |-> TRUE]
            ELSE Text(RequestID(Set(ran, "key", h.id), rid), StatusOK, ran.c.params)
                    @@ [err |-> FALSE]

\* a default error handler that answers 500 whatever was written
onErrorAlways(st) ==
    Text([st EXCEPT !.out.errs = @ + 1], StatusInternalServerError, "Internal Server Error")

\* App.onError as New sets it
onError(st) ==
    LET counted == [st EXCEPT !.out.errs = @ + 1]
    IN  IF ~st.c.written
        THEN Text(counted, StatusInternalServerError, "Internal Server Error")
        ELSE counted

\* strings.Join(allowed, ", ")
JoinComma(list) ==
    [i \in 1..(IF Len(list) = 0 THEN 0 ELSE 2 * Len(list) - 1) |->
        IF i % 2 = 1 THEN list[(i + 1) \div 2] ELSE ", "]

\* a ServeHTTP that wraps only the handlers of routes in the global middleware
ComposeRoutesOnly(global, routeMw, final) ==
    IF Len(global) > 0 /\ final.kind = "user"
    THEN Chain(global, IF Len(routeMw) > 0 THEN Chain(routeMw, final) ELSE final)
    ELSE IF Len(routeMw) > 0 THEN Chain(routeMw, final) ELSE final

\* a ServeHTTP that applies the global middleware first and the route's
\* middleware around it
ComposeRouteOutside(global, routeMw, final) ==
    IF Len(routeMw) > 0
    THEN Chain(routeMw, IF Len(global) > 0 THEN Chain(global, final) ELSE final)
    ELSE IF Len(global) > 0 THEN Chain(global, final) ELSE final

\* handler = Chain(a.middleware...)(Chain(routeMw...)(handler)), each Chain
\* applied only to a list that is not empty
Compose(global, routeMw, final) ==
    IF Len(global) > 0
    THEN Chain(global, IF Len(routeMw) > 0 THEN Chain(routeMw, final) ELSE final)
    ELSE IF Len(routeMw) > 0 THEN Chain(routeMw, final) ELSE final

\* the function a test gives to App.OnError: it records that it was called
CustomOnError(st) == [st EXCEPT !.out.errs = @ + 1]

\* if err := handler(c); err != nil { a.onError(c, err) }
Finish(done) ==
    IF done.err
    THEN IF errorHandler = "default" THEN onError([c |-> done.c, out |-> done.out])
         ELSE CustomOnError([c |-> done.c, out |-> done.out])
    ELSE [c |-> done.c, out |-> done.out]

\* App.ServeHTTP from the redirect test on; found is what
\* lookupWithTrailingSlash returned, st the Ctx with the parameters bound
Respond(st, found, rid) ==
    IF found.redirect # <<>>
    THEN [st EXCEPT !.out.header = ("Location" :> found.redirect) @@ @,
                    !.out.codes = Append(@, StatusMovedPermanently)]
    ELSE IF found.h # NilHandler
    THEN Finish(Exec(Compose(middleware, Elems(arrays, found.mw), found.h), st, rid))
    ELSE IF Len(found.allowed) > 0
    THEN Finish(Exec(Compose(middleware, Elems(arrays, found.mw), MethodNotAllowedHandler),
                     [st EXCEPT !.out.header = ("Allow" :> JoinComma(found.allowed)) @@ @],
                     rid))
    ELSE Finish(Exec(Compose(middleware, Elems(arrays, found.mw), NotFoundHandler), st, rid))

\* c.params after the lookup has written to it
Bind(st, found) == [st EXCEPT !.c.params = found.params]

\* App.ServeHTTP after c.Reset(w, r), on st = [c |-> the Ctx, out |-> the writer]
Located(st, found, rid) == Respond(Bind(st, found), found, rid)

Dispatch(st, method, path, iter, rid) ==
    Located(st, lookupWithTrailingSlash(nodes, trailingSlash, method, path, st.c.params, iter),
            rid)

----------------------------------------------------------------------------
(* serving: App.ServeHTTP in two steps *)

\* a Get that leaves the Ctx it returns in the pool
PoolGetKeep(p, c) == p

\* the pool after a.pool.Get() has returned the Ctx c
PoolGet(p, c) == p \ {c}

\* the pool after a.pool.Put(c)
PoolPut(p, c) == p \cup {c}

\* c := a.pool.Get().(*Ctx); c.Reset(w, r).  Get takes any Ctx of the pool, or
\* calls New when the pool is empty.
Acquire(w, method, path) ==
    /\ pc[w] = "idle"
    /\ \E c \in (IF pool = {} THEN {Len(ctxs) + 1} ELSE pool) :
          LET got == IF c \in pool THEN ctxs[c] ELSE NewCtx
          IN  /\ ctxs' = IF c \in pool THEN [ctxs EXCEPT ![c] = Reset(got, w)]
                         ELSE Append(ctxs, Reset(got, w))
              /\ pool' = PoolGet(pool, c)
              /\ req' = [req EXCEPT ![w] = [method |-> method, path |-> path, c |-> c,
                                            stale |-> got]]
    /\ resp' = [resp EXCEPT ![w] = NewWriter]
    /\ pc' = [pc EXCEPT ![w] = "serving"]
    /\ UNCHANGED <<nodes, arrays, middleware, trailingSlash, errorHandler, groups, routes, lastReg, lk, tmo, rl>>

\* the rest of ServeHTTP, and the deferred a.pool.Put(c)
Serve(w, iter, rid) ==
    /\ pc[w] = "serving"
    /\ LET c    == req[w].c
           done == Dispatch([c |-> ctxs[c], out |-> resp[w]], req[w].method, req[w].path,
                            iter, rid)
       IN  /\ ctxs' = [ctxs EXCEPT ![c] = done.c]
           /\ resp' = [resp EXCEPT ![w] = done.out]
           /\ pool' = PoolPut(pool, c)
    /\ pc' = [pc EXCEPT ![w] = "idle"]
    /\ UNCHANGED <<nodes, arrays, middleware, trailingSlash, errorHandler, groups, routes, lastReg, lk, req, tmo, rl>>

\* worker w has served a request to its end
Served(w) == pc[w] = "idle" /\ req[w].c # 0

----------------------------------------------------------------------------
(* the application of SpecApp: routes, global middleware, trailing-slash mode *)

\* routes are registered, middleware installed and the mode set before the
\* first request is served
Setup == ctxs = <<>>

r1 == <<"r", 1>>
r2 == <<"r", 2>>

\* the calls of app.GET / app.POST of the program, in the order of its text;
\* a run makes any of them
AppRoutes ==
    << [method |-> "GET",  path |-> PathOf(<<users>>),       mw |-> <<r1, r2>>],
       [method |-> "POST", path |-> PathOf(<<users, star>>), mw |-> <<>>],
       [method |-> "GET",  path |-> PathOf(<<users, id>>),   mw |-> <<r1>>],
       [method |-> "GET",  path |-> PathOf(<<>>),            mw |-> <<>>] >>

AppReqPaths ==
    { PathOf(<<users>>), PathOf(<<users>>) \o <<"/">>, PathOf(<<users, n99>>),
      PathOf(<<users, n99>>) \o <<"/">>, PathOf(<<me>>), PathOf(<<>>) }

AppHandleStep ==
    /\ Setup
    /\ \E i \in (lastReg.n + 1)..Len(AppRoutes) :
          Handle(i, AppRoutes[i].method, AppRoutes[i].path, AppRoutes[i].mw)

\* Router.Use(mw...)
Use(mw) ==
    /\ Setup
    /\ Len(middleware) + Len(mw) <= MaxGlobalMw
    /\ middleware' = middleware \o mw
    /\ UNCHANGED <<nodes, arrays, trailingSlash, errorHandler, groups, routes, lastReg, lk, ctxs, pool,
                   pc, req, resp, tmo, rl>>

\* App.SetTrailingSlash(mode)
SetTrailingSlash(mode) ==
    /\ Setup
    /\ trailingSlash' = mode
    /\ UNCHANGED <<nodes, arrays, middleware, errorHandler, groups, routes, lastReg, lk, ctxs, pool,
                   pc, req, resp, tmo, rl>>

\* the k-th global middleware is installed by app.Use(g_k)
UseStep == Use(<<<<"g", Len(middleware) + 1>>>>)

SetTrailingSlashStep ==
    \E mode \in {TrailingSlashIgnore, TrailingSlashRedirect, TrailingSlashStrict} :
        SetTrailingSlash(mode)

AcquireStep ==
    \E w \in Sequential, method \in ReqMethods, path \in AppReqPaths :
        Acquire(w, method, path)

ServeStep == \E w \in Workers, iter \in MethodOrders, rid \in RequestIDs : Serve(w, iter, rid)

NextApp == AppHandleStep \/ UseStep \/ SetTrailingSlashStep \/ AcquireStep \/ ServeStep

SpecApp == Init /\ [][NextApp]_vars

----------------------------------------------------------------------------
(* what the claims about serving speak of *)

Befores(mws) == [i \in 1..Len(mws) |-> <<mws[i], "before">>]

Afters(mws) == [i \in 1..Len(mws) |-> <<mws[Len(mws) + 1 - i], "after">>]

\* the steps of a dispatch of handler h under the middleware list mws
ExpectedOrder(mws, h) == Befores(mws) \o << <<<<"h", h.id>>, "handler">> >> \o Afters(mws)

\* the registrations whose handler ran for the request of worker w
RouteRun(w) ==
    {i \in 1..Len(routes) :
        \E k \in 1..Len(resp[w].order) :
            resp[w].order[k] = <<<<"h", routes[i].h.id>>, "handler">>}

IsGlobalStep(e) == e[1][1] = "g"

\* the steps global middleware took for the request of worker w
GlobalSteps(w) == SelectSeq(resp[w].order, IsGlobalStep)

\* the methods registered on the path
RegisteredOn(path) == {m \in Methods : Matching(m, path) # {}}

\* the methods the Allow header of the response names
AllowSet(w) ==
    IF "Allow" \in DOMAIN resp[w].header
    THEN {resp[w].header["Allow"][k] : k \in {j \in 1..Len(resp[w].header["Allow"]) : j % 2 = 1}}
    ELSE {}

\* the request path ends in a slash and is not "/"
HasTrailingSlash(path) == Len(path) > 1 /\ HasSuffix(path, "/")

----------------------------------------------------------------------------
(* the claims checked under SpecApp *)

\* C3, as stated: when the path of a request has a registered method but the
\* method of the request is not one of them, the response is 405, its Allow
\* header names exactly the methods registered on the path, and no handler of
\* a route runs.  (Stated for paths without trailing slash, which no
\* trailing-slash mode treats specially.)
C3_AsStated ==
    \A w \in Workers :
        (/\ Served(w)
         /\ ~HasTrailingSlash(req[w].path)
         /\ RegisteredOn(req[w].path) # {}
         /\ req[w].method \notin RegisteredOn(req[w].path))
        => /\ resp[w].codes = <<StatusMethodNotAllowed>>
           /\ AllowSet(w) = RegisteredOn(req[w].path)
           /\ RouteRun(w) = {}

\* C5: while a request is dispatched on a Ctx that Reset has prepared, the
\* Ctx holds no parameter, no store entry, written = false, status 0 and an
\* empty request id, whatever the request before left in it.
C5_ContextClean ==
    \A w \in Workers :
        pc[w] = "serving" =>
            /\ ctxs[req[w].c].params = <<>>
            /\ ctxs[req[w].c].store = <<>>
            /\ ctxs[req[w].c].written = FALSE
            /\ ctxs[req[w].c].statusCode = 0
            /\ ctxs[req[w].c].requestID = ""

\* a dispatch starts on a Ctx of the pool in which the request before it had
\* bound a parameter, stored a value, written a response and made a request id
C5_Witness ==
    \E w \in Workers :
        /\ pc[w] = "serving"
        /\ req[w].stale.params # <<>>
        /\ req[w].stale.store # <<>>
        /\ req[w].stale.written
        /\ req[w].stale.statusCode = StatusOK
        /\ req[w].stale.requestID # ""

\* C6: the steps of a request that reached the handler of a route are the
\* before-steps of the global middleware in Use order, the before-steps of
\* the route's middleware in registration order, the handler, and the
\* after-steps in the reverse order, each once.
C6_MiddlewareOrder ==
    \A w \in Workers :
        Served(w) =>
            \A i \in RouteRun(w) :
                resp[w].order = ExpectedOrder(middleware \o routes[i].mw, routes[i].h)

\* a route with two middleware has been dispatched under two global middleware
C6_Witness ==
    \E w \in Workers :
        /\ Served(w)
        /\ Len(middleware) = 2
        /\ \E i \in RouteRun(w) : Len(routes[i].mw) = 2
        /\ Len(resp[w].order) = 9

\* C7, as stated: every request served passes through every global
\* middleware once, in every trailing-slash mode.
C7_AsStated ==
    \A w \in Workers :
        Served(w) => GlobalSteps(w) = Befores(middleware) \o Afters(middleware)

\* C7, amended: every request served that the trailing-slash redirect has not
\* answered passes through every global middleware once, whether it ends in
\* the handler of a route, in the not-found handler or in the 405 handler.
C7_GlobalBracketUnlessRedirect ==
    \A w \in Workers :
        (Served(w) /\ resp[w].codes # <<StatusMovedPermanently>>)
        => GlobalSteps(w) = Befores(middleware) \o Afters(middleware)

\* requests have ended in 404 and in 405 under two global middleware, in a
\* mode other than Ignore
C7_Witness ==
    \E w \in Workers :
        /\ Served(w)
        /\ Len(middleware) = 2
        /\ trailingSlash # TrailingSlashIgnore
        /\ resp[w].codes \in {<<StatusNotFound>>, <<StatusMethodNotAllowed>>}
        /\ HasTrailingSlash(req[w].path)

\* C10: in mode Redirect a request for /x/, x a registered route of the
\* request's method, gets one response, 301 with Location /x, and neither the
\* handler nor any middleware runs nor is a body written.
C10_RedirectOnce ==
    \A w \in Workers :
        (/\ Served(w)
         /\ trailingSlash = TrailingSlashRedirect
         /\ HasTrailingSlash(req[w].path)
         /\ \E i \in Live : /\ routes[i].method = req[w].method
                            /\ PathOf(routes[i].parts) = TrimSuffix(req[w].path))
        => /\ resp[w].codes = <<StatusMovedPermanently>>
           /\ resp[w].header = ("Location" :> TrimSuffix(req[w].path))
           /\ resp[w].order = <<>>
           /\ resp[w].body = <<>>

\* GET /users/ has been served in mode Redirect with GET /users registered
C10_Witness ==
    \E w \in Workers :
        /\ Served(w)
        /\ trailingSlash = TrailingSlashRedirect
        /\ req[w].method = "GET" /\ req[w].path = PathOf(<<users>>) \o <<"/">>
        /\ \E i \in Live : routes[i].method = "GET" /\ routes[i].parts = <<users>>
        /\ resp[w].codes = <<StatusMovedPermanently>>

\* C11: in mode Strict a request whose path ends in a slash and is not "/"
\* runs the handler of no route and is answered by the not-found handler; a
\* request for the path of a registered route as it was registered, "/"
\* included, runs the handler of that route.
C11_StrictNoMatch ==
    \A w \in Workers :
        (Served(w) /\ trailingSlash = TrailingSlashStrict)
        => /\ HasTrailingSlash(req[w].path)
                => /\ RouteRun(w) = {}
                   /\ resp[w].codes = <<StatusNotFound>>
                   /\ resp[w].body = <<"Not Found">>
           /\ ~HasTrailingSlash(req[w].path)
                => \A i \in Live :
                      (routes[i].method = req[w].method /\ PathOf(routes[i].parts) = req[w].path)
                      => (RouteRun(w) = {i} /\ resp[w].codes = <<StatusOK>>)

\* GET /users/ has been answered 404 in mode Strict with GET /users registered
C11_Witness ==
    \E w \in Workers :
        /\ Served(w)
        /\ trailingSlash = TrailingSlashStrict
        /\ req[w].method = "GET" /\ req[w].path = PathOf(<<users>>) \o <<"/">>
        /\ \E i \in Live : routes[i].method = "GET" /\ routes[i].parts = <<users>>
        /\ resp[w].codes = <<StatusNotFound>>

\* the path with its trailing slash taken away, or with one added
Sibling(path) == IF HasTrailingSlash(path) THEN TrimSuffix(path) ELSE path \o <<"/">>

\* the methods an Allow header names
AllowOf(header) ==
    IF "Allow" \in DOMAIN header
    THEN {header["Allow"][k] : k \in {j \in 1..Len(header["Allow"]) : j % 2 = 1}}
    ELSE {}

\* the writer after a request for the method and the path on a new Ctx
Answer(w, method, path, iter, rid) ==
    Dispatch([c |-> Reset(NewCtx, w), out |-> NewWriter], method, path, iter, rid).out

C28_AsStated ==
    \A w \in Workers :
        (/\ Served(w)
         /\ RouteRun(w) = {}
         /\ resp[w].codes \in {<<StatusNotFound>>, <<StatusMethodNotAllowed>>})
        => \A n \in DOMAIN ctxs[req[w].c].params : Param(ctxs[req[w].c], n) = <<>>

----------------------------------------------------------------------------
(* groups, and the application of SpecGroup *)

MaxGroups == 1       \* groups created in one run
MaxGroupMw == 4      \* middleware in the list of one group

api == <<"/", "api">>

\* Router.Group(prefix, mw...)
RouterGroup(prefix, mwArgs) ==
    /\ Setup
    /\ Len(groups) < MaxGroups
    /\ groups' = Append(groups, [prefix |-> prefix, middleware |-> Variadic(arrays, mwArgs).s])
    /\ arrays' = Variadic(arrays, mwArgs).as
    /\ UNCHANGED <<nodes, middleware, trailingSlash, errorHandler, routes, lastReg, lk, ctxs, pool, pc,
                   req, resp, tmo, rl>>

\* Group.Use(mw...) on groups[g]
GroupUse(g, mwArgs) ==
    /\ Setup
    /\ groups[g].middleware.len + Len(mwArgs) <= MaxGroupMw
    /\ groups' = [groups EXCEPT ![g].middleware = GoAppend(arrays, @, mwArgs).s]
    /\ arrays' = GoAppend(arrays, groups[g].middleware, mwArgs).as
    /\ UNCHANGED <<nodes, middleware, trailingSlash, errorHandler, routes, lastReg, lk, ctxs, pool, pc,
                   req, resp, tmo, rl>>

\* Group.Handle(method, path, h, mw...) on groups[g], the n-th registration
GroupHandle(g, n, method, path, mwArgs) ==
    /\ Setup
    /\ Register(n, method, groups[g].prefix \o path,
                GoAppend(arrays, groups[g].middleware, mwArgs).as,
                GoAppend(arrays, groups[g].middleware, mwArgs).s)
    /\ UNCHANGED groups

RouterGroupStep == \E mwArgs \in {<<>>, <<<<"m", 0>>>>} : RouterGroup(api, mwArgs)

\* the k-th middleware of a group's list is installed by g.Use(m_k)
GroupUseStep ==
    \E g \in 1..Len(groups) : GroupUse(g, <<<<"m", groups[g].middleware.len + 1>>>>)

\* g.GET(path, h) and g.GET(path, h, x_n)
GroupHandleStep ==
    /\ lastReg.n < MaxRoutes
    /\ \E g \in 1..Len(groups), path \in {<<"/", "a">>, <<"/", "b">>},
          mwArgs \in {<<>>, <<<<"x", lastReg.n + 1>>>>} :
          GroupHandle(g, lastReg.n + 1, "GET", path, mwArgs)

GroupAcquireStep ==
    \E w \in Sequential, path \in {api \o <<"/", "a">>, api \o <<"/", "b">>} :
        Acquire(w, "GET", path)

NextGroup ==
    RouterGroupStep \/ GroupUseStep \/ GroupHandleStep \/ GroupAcquireStep \/ ServeStep

SpecGroup == Init /\ [][NextGroup]_vars

----------------------------------------------------------------------------
(* the claim checked under SpecGroup *)

\* C4, as stated: a request that reaches the handler of a route registered on
\* a group runs the middleware the group had when the route was registered,
\* then the extra middleware of the route, then the handler; what the group
\* got later, and what other routes got, does not run.
C4_AsStated ==
    \A w \in Workers :
        Served(w) =>
            \A i \in RouteRun(w) :
                SelectSeq(resp[w].order, LAMBDA e : e[2] = "before") = Befores(routes[i].mw)

----------------------------------------------------------------------------
(* SpecPool: two goroutines serve requests for GET /set/:value at once; the *)
(* handler stores the parameter, works, and reads the store back           *)

set == <<"set">>
value == <<":", "value">>
value0 == <<"value0">>
value1 == <<"value1">>

\* app.GET("/set/:value", h)
PoolHandleStep ==
    /\ Setup
    /\ lastReg.n = 0
    /\ Handle(1, "GET", PathOf(<<set, value>>), <<>>)

PoolAcquireStep ==
    /\ lastReg.n = 1
    /\ \E w \in Workers, v \in {value0, value1} : Acquire(w, "GET", PathOf(<<set, v>>))

\* ServeHTTP up to the handler's time.Sleep: the lookup binds the parameter,
\* and the handler does value := c.Param("value"); c.Set("test", value)
PoolBegin(w, iter) ==
    /\ pc[w] = "serving"
    /\ LET c  == req[w].c
           st == Bind([c |-> ctxs[c], out |-> resp[w]],
                      lookupWithTrailingSlash(nodes, trailingSlash, req[w].method,
                                              req[w].path, ctxs[c].params, iter))
       IN  /\ ctxs' = [ctxs EXCEPT ![c] = Set(st, "test", st.c.params[Tail(value)]).c]
           /\ req' = [req EXCEPT ![w] = [value |-> st.c.params[Tail(value)]] @@ @]
    /\ pc' = [pc EXCEPT ![w] = "working"]
    /\ UNCHANGED <<nodes, arrays, middleware, trailingSlash, errorHandler, groups, routes, lastReg, lk,
                   pool, resp, tmo, rl>>

\* the handler after time.Sleep: stored := c.GetString("test"), the answer,
\* and the deferred a.pool.Put(c)
PoolEnd(w) ==
    /\ pc[w] = "working"
    /\ LET c    == req[w].c
           st   == [c |-> ctxs[c], out |-> resp[w]]
           done == IF st.c.store["test"] # req[w].value
                   THEN ServerError(st, <<"context leaked">>)
                   ELSE Text(st, StatusOK, st.c.store["test"])
       IN  /\ ctxs' = [ctxs EXCEPT ![c] = done.c]
           /\ resp' = [resp EXCEPT ![w] = done.out]
           /\ pool' = PoolPut(pool, c)
    /\ pc' = [pc EXCEPT ![w] = "idle"]
    /\ UNCHANGED <<nodes, arrays, middleware, trailingSlash, errorHandler, groups, routes, lastReg, lk, req, tmo, rl>>

PoolBeginStep == \E w \in Workers, iter \in MethodOrders : PoolBegin(w, iter)

PoolEndStep == \E w \in Workers : PoolEnd(w)

NextPool == PoolHandleStep \/ PoolAcquireStep \/ PoolBeginStep \/ PoolEndStep

SpecPool == Init /\ [][NextPool]_vars

\* C13: two requests in flight never hold the same Ctx, a Ctx in use is not
\* in the pool, a handler at work finds its own parameter and its own store
\* value in its Ctx, and every answer is 200 with the value of its request.
C13_ExclusiveContext ==
    /\ \A w \in Workers, v \in Workers :
          (w # v /\ pc[w] # "idle" /\ pc[v] # "idle") => req[w].c # req[v].c
    /\ \A w \in Workers :
          /\ pc[w] # "idle" => req[w].c \notin pool
          /\ pc[w] = "working"
                => /\ ctxs[req[w].c].params[Tail(value)] = splitPath(req[w].path)[2]
                   /\ ctxs[req[w].c].store["test"] = splitPath(req[w].path)[2]
          /\ Served(w)
                => /\ resp[w].codes = <<StatusOK>>
                   /\ resp[w].body = <<splitPath(req[w].path)[2]>>

\* two handlers are at work at once for different values, one of them on a
\* Ctx that has served a request before
C13_Witness ==
    /\ pc["w1"] = "working" /\ pc["w2"] = "working"
    /\ req["w1"].value # req["w2"].value
    /\ \E w \in Workers : req[w].stale.written

----------------------------------------------------------------------------
(* SpecHandlers: one route GET / whose handler and middleware write twice, *)
(* fail or return without calling next                                     *)

\* the handlers of the program: one that answers, one that returns an error,
\* one that writes twice, one that sets a status and then answers, one that
\* writes and then returns an error
HandlerBehaviours ==
    { UserHandler(1), [UserHandler(1) EXCEPT !.err = TRUE],
      [kind |-> "double", id |-> 1, err |-> FALSE],
      [kind |-> "restatus", id |-> 1, err |-> FALSE],
      [kind |-> "writefail", id |-> 1, err |-> TRUE] }

\* a middleware that returns a 400 answer without calling next, and one that
\* returns an error without calling next
s1 == <<"s", 0>>
e1 == <<"e", 0>>

\* App.OnError(fn)
OnError(fn) ==
    /\ Setup
    /\ errorHandler' = fn
    /\ UNCHANGED <<nodes, arrays, middleware, trailingSlash, groups, routes, lastReg, lk,
                   ctxs, pool, pc, req, resp, tmo, rl>>

OnErrorStep == errorHandler = "default" /\ OnError("custom")

\* app.Use(m): m calls next, or returns without calling it
HandlersUseStep == \E kind \in {"g", "s", "e"} : Use(<<<<kind, Len(middleware) + 1>>>>)

\* app.GET("/", h, mw...)
HandlersHandleStep ==
    /\ Setup
    /\ lastReg.n = 0
    /\ \E h \in HandlerBehaviours, mwArgs \in {<<>>, <<r1>>, <<r1, s1>>, <<e1, r1>>} :
          /\ RegisterHandler(h, 1, "GET", PathOf(<<>>),
                             Variadic(arrays, mwArgs).as, Variadic(arrays, mwArgs).s)
          /\ UNCHANGED groups

HandlersAcquireStep ==
    \E w \in Sequential, path \in {PathOf(<<>>), PathOf(<<me>>)} : Acquire(w, "GET", path)

NextHandlers ==
    HandlersUseStep \/ HandlersHandleStep \/ OnErrorStep \/ HandlersAcquireStep \/ ServeStep

SpecHandlers == Init /\ [][NextHandlers]_vars

----------------------------------------------------------------------------
(* the claims checked under SpecHandlers *)

\* the request of worker w is for the route of SpecHandlers
Matched(w) == Len(routes) > 0 /\ req[w].path = PathOf(routes[1].parts)

\* the middleware composed for the request of worker w, outermost first
ChainList(w) == middleware \o (IF Matched(w) THEN routes[1].mw ELSE <<>>)

\* the handler the middleware is composed around
FinalHandler(w) == IF Matched(w) THEN routes[1].h ELSE NotFoundHandler

\* the middleware returns without calling next
Stops(mw) == mw[1] \in {"s", "e"}

\* the position in L of the first middleware that does not call next, or 0
FirstStop(L) ==
    IF \E k \in 1..Len(L) : Stops(L[k])
    THEN CHOOSE k \in 1..Len(L) : Stops(L[k]) /\ \A j \in 1..(k - 1) : ~Stops(L[j])
    ELSE 0

\* the composed chain returns an error for the request of worker w
ChainFails(w) ==
    IF FirstStop(ChainList(w)) > 0
    THEN ChainList(w)[FirstStop(ChainList(w))][1] = "e"
    ELSE FinalHandler(w).err

\* the chain has written a response before it returns its error
WrittenBeforeError(w) ==
    FirstStop(ChainList(w)) = 0 /\ FinalHandler(w).kind = "writefail"

\* C14: the status line of a response is written at most once, and
\* StatusCode() is the first code written through the Ctx, whatever the
\* handler, the middleware and the error handler write after it.
C14_SingleStatusWrite ==
    \A w \in Workers :
        /\ Len(resp[w].codes) <= 1
        /\ (Served(w) /\ ctxs[req[w].c].written)
              => /\ resp[w].codes # <<>>
                 /\ ctxs[req[w].c].statusCode = resp[w].codes[1]

\* the handler that calls Text(200, "first") and Text(201, "second") has run
C14_Witness ==
    \E w \in Workers :
        /\ Served(w)
        /\ resp[w].body = << <<"first">>, <<"second">> >>
        /\ resp[w].codes = <<StatusOK>>
        /\ ctxs[req[w].c].statusCode = StatusOK

\* C15: the error handler is called once when the composed chain returns an
\* error and not at all when it returns nil; the default error handler
\* writes 500 and its text when nothing was written, and nothing otherwise.
C15_ErrorHandlerOnce ==
    \A w \in Workers :
        Served(w) =>
            /\ resp[w].errs = IF ChainFails(w) THEN 1 ELSE 0
            /\ (ChainFails(w) /\ errorHandler = "default" /\ ~WrittenBeforeError(w))
                  => /\ resp[w].codes = <<StatusInternalServerError>>
                     /\ resp[w].body = <<"Internal Server Error">>
            /\ (ChainFails(w) /\ errorHandler = "default" /\ WrittenBeforeError(w))
                  => /\ resp[w].codes = <<StatusOK>>
                     /\ resp[w].body = << <<"partial">> >>
            /\ ~ChainFails(w) => resp[w].codes # <<StatusInternalServerError>>

\* a handler has written its answer and returned an error, and the default
\* error handler has been called
C15_Witness ==
    \E w \in Workers :
        /\ Served(w)
        /\ errorHandler = "default"
        /\ WrittenBeforeError(w)
        /\ resp[w].errs = 1

\* C17: when a middleware returns without calling next, the steps of the
\* request are the before-steps down to that middleware and the after-steps
\* of the middleware outside it, in reverse order; the handler and the
\* middleware inside do not run; the error handler is called once if the
\* middleware returned an error, and not otherwise.
C17_ShortCircuit ==
    \A w \in Workers :
        (Served(w) /\ FirstStop(ChainList(w)) > 0)
        => /\ resp[w].order =
                 Befores(SubSeq(ChainList(w), 1, FirstStop(ChainList(w))))
                    \o Afters(SubSeq(ChainList(w), 1, FirstStop(ChainList(w)) - 1))
           /\ resp[w].errs = IF ChainList(w)[FirstStop(ChainList(w))][1] = "e" THEN 1 ELSE 0
           /\ ChainList(w)[FirstStop(ChainList(w))][1] = "s"
                 => resp[w].codes = <<StatusBadRequest>>

\* the second of three middleware has returned an error without calling next
C17_Witness ==
    \E w \in Workers :
        /\ Served(w)
        /\ Len(ChainList(w)) >= 3
        /\ FirstStop(ChainList(w)) = 2
        /\ ChainList(w)[2][1] = "e"
        /\ Len(resp[w].order) = 3
        /\ resp[w].errs = 1

----------------------------------------------------------------------------
(* the Allow header of the last lookup, checked under SpecRouter *)

\* the methods in alphabetical order
MethodsSorted == <<"DELETE", "GET", "POST">>

\* the methods of the set in alphabetical order
SortedList(ms) == SelectSeq(MethodsSorted, LAMBDA m : m \in ms)

\* C20, as stated: the Allow header that ServeHTTP makes of the methods
\* lookup returns for a path without handler for the method is the
\* comma-joined list of the methods in sorted order.
C20_AsStated ==
    (lk.valid /\ lk.h = NilHandler /\ Len(lk.allowed) > 0)
    => JoinComma(lk.allowed)
          = JoinComma(SortedList({lk.allowed[k] : k \in 1..Len(lk.allowed)}))

----------------------------------------------------------------------------
(* SpecTimeout: app.Use(middleware.Timeout(d)) and one route GET /slow     *)
(* whose handler sleeps and then calls c.Text(200, "done").  The           *)
(* middleware runs next(c) on a goroutine of its own and waits for it or   *)
(* for the deadline; both goroutines hold the same Ctx and no lock         *)

slow == <<"slow">>

\* the part of Ctx.Text and Ctx.JSON inside "if !c.written": the header,
\* WriteHeader(code), c.written = true, c.statusCode = code
WriteStatus(st, code, ctype) ==
    [c   |-> [st.c EXCEPT !.written = TRUE, !.statusCode = code],
     out |-> [st.out EXCEPT !.header = ("Content-Type" :> ctype) @@ @,
                            !.codes = Append(@, code)]]

\* the part of Ctx.Text and Ctx.JSON after it: c.Writer.Write
WriteBody(st, text) == [st EXCEPT !.out.body = Append(@, text)]

\* app.Use(middleware.Timeout(d))
TimeoutUseStep == middleware = <<>> /\ Use(<<<<"t", 1>>>>)

\* app.GET("/slow", h)
TimeoutHandleStep ==
    /\ Setup
    /\ lastReg.n = 0
    /\ Handle(1, "GET", PathOf(<<slow>>), <<>>)

\* a request for GET /slow arrives when the goroutine of the request before
\* it has ended
TimeoutAcquireStep ==
    /\ lastReg.n = 1
    /\ middleware # <<>>
    /\ \E w \in Sequential :
          /\ tmo[w].h \in {"none", "ended"}
          /\ Acquire(w, "GET", PathOf(<<slow>>))

\* ServeHTTP from the lookup to the select of Timeout: the deadline is set,
\* the goroutine that runs next(c) is started
TimeoutEnter(w, iter) ==
    /\ pc[w] = "serving"
    /\ LET c  == req[w].c
           st == Bind([c |-> ctxs[c], out |-> resp[w]],
                      lookupWithTrailingSlash(nodes, trailingSlash, req[w].method,
                                              req[w].path, ctxs[c].params, iter))
       IN  ctxs' = [ctxs EXCEPT ![c] = st.c]
    /\ tmo' = [tmo EXCEPT ![w] = [NoTimeout EXCEPT !.h = "sleep", !.m = "select"]]
    /\ pc' = [pc EXCEPT ![w] = "timeout"]
    /\ UNCHANGED <<nodes, arrays, middleware, trailingSlash, errorHandler, groups, routes,
                   lastReg, lk, pool, req, resp, rl>>

\* the timer of context.WithTimeout fires
Deadline(w) ==
    /\ tmo[w].m = "select"
    /\ ~tmo[w].fired
    /\ tmo' = [tmo EXCEPT ![w].fired = TRUE]
    /\ UNCHANGED <<nodes, arrays, middleware, trailingSlash, errorHandler, groups, routes,
                   lastReg, lk, ctxs, pool, pc, req, resp, rl>>

\* the handler's goroutine: c.Text(200, "done") reads c.written
HandlerTest(w) ==
    /\ tmo[w].h = "sleep"
    /\ tmo' = [tmo EXCEPT ![w].h = IF ctxs[req[w].c].written THEN "body" ELSE "status"]
    /\ resp' = [resp EXCEPT ![w].order = Append(@, <<<<"h", 1>>, "handler">>)]
    /\ UNCHANGED <<nodes, arrays, middleware, trailingSlash, errorHandler, groups, routes,
                   lastReg, lk, ctxs, pool, pc, req, rl>>

\* the handler's goroutine: the status line of c.Text(200, "done")
HandlerWriteStatus(w) ==
    /\ tmo[w].h = "status"
    /\ LET c    == req[w].c
           done == WriteStatus([c |-> ctxs[c], out |-> resp[w]], StatusOK,
                               <<"text/plain; charset=utf-8">>)
       IN  /\ ctxs' = [ctxs EXCEPT ![c] = done.c]
           /\ resp' = [resp EXCEPT ![w] = done.out]
    /\ tmo' = [tmo EXCEPT ![w].h = "body"]
    /\ UNCHANGED <<nodes, arrays, middleware, trailingSlash, errorHandler, groups, routes,
                   lastReg, lk, pool, pc, req, rl>>

\* the handler's goroutine: the body of c.Text(200, "done")
HandlerWriteBody(w) ==
    /\ tmo[w].h = "body"
    /\ resp' = [resp EXCEPT ![w] = WriteBody([c |-> ctxs[req[w].c], out |-> @], <<"done">>).out]
    /\ tmo' = [tmo EXCEPT ![w].h = "send"]
    /\ UNCHANGED <<nodes, arrays, middleware, trailingSlash, errorHandler, groups, routes,
                   lastReg, lk, ctxs, pool, pc, req, rl>>

\* the handler's goroutine: done <- next(c); the channel has room for one
\* value, so the send does not wait for a receiver
HandlerSend(w) ==
    /\ tmo[w].h = "send"
    /\ tmo' = [tmo EXCEPT ![w].h = "ended", ![w].done = 1]
    /\ UNCHANGED <<nodes, arrays, middleware, trailingSlash, errorHandler, groups, routes,
                   lastReg, lk, ctxs, pool, pc, req, resp, rl>>

\* case err := <-done: return err; ServeHTTP returns and puts the Ctx back
SelectDone(w) ==
    /\ tmo[w].m = "select"
    /\ tmo[w].done = 1
    /\ tmo' = [tmo EXCEPT ![w].m = "returned", ![w].done = 0]
    /\ pool' = PoolPut(pool, req[w].c)
    /\ pc' = [pc EXCEPT ![w] = "idle"]
    /\ UNCHANGED <<nodes, arrays, middleware, trailingSlash, errorHandler, groups, routes,
                   lastReg, lk, ctxs, req, resp, rl>>

\* case <-ctx.Done(): c.JSON(504, ...) reads c.written
SelectTimeout(w) ==
    /\ tmo[w].m = "select"
    /\ tmo[w].fired
    /\ tmo' = [tmo EXCEPT ![w].m = IF ctxs[req[w].c].written THEN "body" ELSE "status",
                          ![w].timedOut = TRUE]
    /\ UNCHANGED <<nodes, arrays, middleware, trailingSlash, errorHandler, groups, routes,
                   lastReg, lk, ctxs, pool, pc, req, resp, rl>>

\* the status line of c.JSON(504, marten.E("request timeout"))
TimeoutWriteStatus(w) ==
    /\ tmo[w].m = "status"
    /\ LET c    == req[w].c
           done == WriteStatus([c |-> ctxs[c], out |-> resp[w]], StatusGatewayTimeout,
                               <<"application/json; charset=utf-8">>)
       IN  /\ ctxs' = [ctxs EXCEPT ![c] = done.c]
           /\ resp' = [resp EXCEPT ![w] = done.out]
    /\ tmo' = [tmo EXCEPT ![w].m = "body"]
    /\ UNCHANGED <<nodes, arrays, middleware, trailingSlash, errorHandler, groups, routes,
                   lastReg, lk, pool, pc, req, rl>>

\* the body of c.JSON(504, ...), the return of Timeout and of ServeHTTP, and
\* the deferred a.pool.Put(c)
TimeoutWriteBody(w) ==
    /\ tmo[w].m = "body"
    /\ resp' = [resp EXCEPT ![w] = WriteBody([c |-> ctxs[req[w].c], out |-> @],
                                             <<"request timeout">>).out]
    /\ tmo' = [tmo EXCEPT ![w].m = "returned"]
    /\ pool' = PoolPut(pool, req[w].c)
    /\ pc' = [pc EXCEPT ![w] = "idle"]
    /\ UNCHANGED <<nodes, arrays, middleware, trailingSlash, errorHandler, groups, routes,
                   lastReg, lk, ctxs, req, rl>>

NextTimeout ==
    \/ TimeoutUseStep \/ TimeoutHandleStep \/ TimeoutAcquireStep
    \/ \E w \in Sequential, iter \in MethodOrders : TimeoutEnter(w, iter)
    \/ \E w \in Sequential :
          \/ Deadline(w) \/ HandlerTest(w) \/ HandlerWriteStatus(w) \/ HandlerWriteBody(w)
          \/ HandlerSend(w) \/ SelectDone(w) \/ SelectTimeout(w) \/ TimeoutWriteStatus(w)
          \/ TimeoutWriteBody(w)

SpecTimeout == Init /\ [][NextTimeout]_vars

\* C18, as stated: under the Timeout middleware the status line of a
\* response is written at most once, and a request whose deadline fired
\* before the handler had returned is answered 504, whenever the handler
\* writes its own response.
C18_AsStated ==
    \A w \in Workers :
        /\ Len(resp[w].codes) <= 1
        /\ (tmo[w].timedOut /\ tmo[w].m = "returned") => resp[w].codes = <<StatusGatewayTimeout>>

\* C29, as stated: no step of the goroutine that runs the handler reads or
\* writes the Ctx of its request (c.written, c.statusCode, c.Writer) once
\* ServeHTTP has put that Ctx back into the pool.
C29_AsStated ==
    [][\A w \in Workers :
          (tmo[w].h \in {"sleep", "status", "body"} /\ tmo'[w].h # tmo[w].h)
          => req[w].c \notin pool]_vars

----------------------------------------------------------------------------
(* SpecRate: app.Use(rl.Middleware()) with Requests = RateRequests and     *)
(* Window = RateWindow, the key of a request being its path; two           *)
(* goroutines serve requests at once while the clock runs and the cleanup  *)
(* goroutine works                                                         *)

\* a mutex that anyone can lock while it is held
FreeAlways(mu) == TRUE

\* rl.mu can be locked
Free(mu) == mu = ""

\* cfg.KeyFunc(c), for a KeyFunc that returns c.Path()
KeyFunc(r) == r.path

\* &bucket{reset: time.Now().Add(rl.cfg.Window), remaining: rl.cfg.Requests}
NewBucket(t) == [reset |-> t + RateWindow, remaining |-> RateRequests]

\* if now.After(b.reset) { b.reset = now.Add(Window); b.remaining = Requests }
Refill(b, t) == IF t > b.reset THEN NewBucket(t) ELSE b

\* the buckets cleanup deletes at time t
Expired(lim, t) == {k \in DOMAIN lim.clients : t - lim.heap[lim.clients[k]].reset > RateWindow * 2}

\* app.Use(rl.Middleware())
RateUseStep == middleware = <<>> /\ Use(<<<<"rl", 1>>>>)

\* app.GET("/", h)
RateHandleStep ==
    /\ Setup
    /\ lastReg.n = 0
    /\ Handle(1, "GET", PathOf(<<>>), <<>>)

RateAcquireStep ==
    /\ lastReg.n = 1
    /\ middleware # <<>>
    /\ rl.served + Cardinality({w \in Workers : pc[w] = "serving"}) < MaxServed
    /\ \E w \in Workers, path \in {PathOf(<<>>), PathOf(<<me>>)} : Acquire(w, "GET", path)

\* time passes
Tick ==
    /\ rl.now < MaxTime
    /\ rl' = [rl EXCEPT !.now = @ + 1]
    /\ UNCHANGED <<nodes, arrays, middleware, trailingSlash, errorHandler, groups, routes,
                   lastReg, lk, ctxs, pool, pc, req, resp, tmo>>

\* RateLimiter.cleanup, which the ticker of NewRateLimiter calls
RateCleanup ==
    /\ Free(rl.mu)
    /\ Expired(rl, rl.now) # {}
    /\ rl' = [rl EXCEPT !.clients = [k \in DOMAIN @ \ Expired(rl, rl.now) |-> @[k]]]
    /\ UNCHANGED <<nodes, arrays, middleware, trailingSlash, errorHandler, groups, routes,
                   lastReg, lk, ctxs, pool, pc, req, resp, tmo>>

\* ServeHTTP from the lookup to the middleware's rl.mu.Lock() and
\* b, ok := rl.clients[key], with the bucket made if there is none
RateLock(w, iter) ==
    /\ pc[w] = "serving"
    /\ Free(rl.mu)
    /\ LET c  == req[w].c
           st == Bind([c |-> ctxs[c], out |-> resp[w]],
                      lookupWithTrailingSlash(nodes, trailingSlash, req[w].method,
                                              req[w].path, ctxs[c].params, iter))
       IN  ctxs' = [ctxs EXCEPT ![c] = st.c]
    /\ LET key == KeyFunc(req[w])
       IN  IF key \in DOMAIN rl.clients
           THEN rl' = [rl EXCEPT !.mu = w, !.served = @ + 1, !.b[w] = rl.clients[key]]
           ELSE rl' = [rl EXCEPT !.mu = w, !.served = @ + 1,
                                 !.heap = Append(@, NewBucket(rl.now)),
                                 !.clients = (key :> (Len(rl.heap) + 1)) @@ @,
                                 !.passed = (key :> 0) @@ [k \in DOMAIN @ \ {key} |-> @[k]],
                                 !.b[w] = Len(rl.heap) + 1]
    /\ pc' = [pc EXCEPT ![w] = "locked"]
    /\ UNCHANGED <<nodes, arrays, middleware, trailingSlash, errorHandler, groups, routes,
                   lastReg, lk, pool, req, resp, tmo>>

\* now := time.Now(), the refill of a bucket whose window is over, and the
\* three X-RateLimit headers (the numbers stand for their decimal text)
RateRefill(w) ==
    /\ pc[w] = "locked"
    /\ LET key  == KeyFunc(req[w])
           full == Refill(rl.heap[rl.b[w]], rl.now)
       IN  /\ rl' = [rl EXCEPT !.heap[rl.b[w]] = full,
                               !.passed[key] = IF rl.now > rl.heap[rl.b[w]].reset THEN 0 ELSE @,
                               !.seen[w] = full.reset]
           /\ resp' = [resp EXCEPT ![w].header =
                          ("X-RateLimit-Limit" :> RateRequests)
                             @@ ("X-RateLimit-Remaining" :> full.remaining)
                             @@ ("X-RateLimit-Reset" :> full.reset) @@ @]
    /\ pc' = [pc EXCEPT ![w] = "filled"]
    /\ UNCHANGED <<nodes, arrays, middleware, trailingSlash, errorHandler, groups, routes,
                   lastReg, lk, ctxs, pool, req, tmo>>

\* if b.remaining <= 0 { rl.mu.Unlock() ... } else b.remaining--; rl.mu.Unlock()
RateDecide(w) ==
    /\ pc[w] = "filled"
    /\ LET key == KeyFunc(req[w])
       IN  IF rl.heap[rl.b[w]].remaining <= 0
           THEN /\ rl' = [rl EXCEPT !.mu = ""]
                /\ pc' = [pc EXCEPT ![w] = "limited"]
           ELSE /\ rl' = [rl EXCEPT !.mu = "",
                                    !.heap[rl.b[w]].remaining = @ - 1,
                                    !.passed[key] = @ + 1]
                /\ pc' = [pc EXCEPT ![w] = "passing"]
    /\ UNCHANGED <<nodes, arrays, middleware, trailingSlash, errorHandler, groups, routes,
                   lastReg, lk, ctxs, pool, req, resp, tmo>>

\* the Retry-After header, made of b.reset read without the mutex (reset is
\* the value the read returns), c.JSON(429, ...), and the return of ServeHTTP
RateReject(w, reset) ==
    /\ pc[w] = "limited"
    /\ LET c    == req[w].c
           done == JSON([c |-> ctxs[c],
                         out |-> [resp[w] EXCEPT
                                    !.header = ("Retry-After" :> (reset - rl.now)) @@ @]],
                        StatusTooManyRequests, <<"rate limit exceeded">>)
       IN  /\ ctxs' = [ctxs EXCEPT ![c] = done.c]
           /\ resp' = [resp EXCEPT ![w] = done.out]
           /\ pool' = PoolPut(pool, c)
    /\ rl' = [rl EXCEPT !.b[w] = 0, !.seen[w] = 0]
    /\ pc' = [pc EXCEPT ![w] = "idle"]
    /\ UNCHANGED <<nodes, arrays, middleware, trailingSlash, errorHandler, groups, routes,
                   lastReg, lk, req, tmo>>

\* return next(c): the rest of the chain, and the return of ServeHTTP
RatePass(w, iter, rid) ==
    /\ pc[w] = "passing"
    /\ LET c     == req[w].c
           found == lookupWithTrailingSlash(nodes, trailingSlash, req[w].method,
                                            req[w].path, <<>>, iter)
           done  == Finish(Exec(Compose(Tail(middleware), Elems(arrays, found.mw),
                                        IF found.h # NilHandler THEN found.h
                                        ELSE NotFoundHandler),
                                [c |-> ctxs[c], out |-> resp[w]], rid))
       IN  /\ ctxs' = [ctxs EXCEPT ![c] = done.c]
           /\ resp' = [resp EXCEPT ![w] = done.out]
           /\ pool' = PoolPut(pool, c)
    /\ rl' = [rl EXCEPT !.b[w] = 0, !.seen[w] = 0]
    /\ pc' = [pc EXCEPT ![w] = "idle"]
    /\ UNCHANGED <<nodes, arrays, middleware, trailingSlash, errorHandler, groups, routes,
                   lastReg, lk, req, tmo>>

\* the read of b.reset for the Retry-After header is not under the mutex: it
\* returns the value the worker saw under the mutex or the value of now
NextRate ==
    \/ RateUseStep \/ RateHandleStep \/ RateAcquireStep \/ Tick \/ RateCleanup
    \/ \E w \in Workers, iter \in MethodOrders : RateLock(w, iter)
    \/ \E w \in Workers : RateRefill(w) \/ RateDecide(w)
    \/ \E w \in Workers :
          /\ pc[w] = "limited"
          /\ \E reset \in {rl.seen[w], rl.heap[rl.b[w]].reset} : RateReject(w, reset)
    \/ \E w \in Workers, iter \in MethodOrders, rid \in RequestIDs : RatePass(w, iter, rid)

SpecRate == Init /\ [][NextRate]_vars

\* the request of worker w was answered by the rate limiter
Limited(w) == "Retry-After" \in DOMAIN resp[w].header

----------------------------------------------------------------------------
(* SpecEdge: registrations on /users and beneath it with wildcards of two   *)
(* names, a segment after a wildcard, parameters of two names and          *)
(* route middleware, and lookups of paths with doubled slashes             *)

NextEdge ==
    \/ /\ lastReg.n < MaxRoutes
       /\ \E method \in Methods,
             path \in { PathOf(<<users>>), PathOf(<<users, star>>),
                        PathOf(<<users, <<"*", "q">>>>), PathOf(<<users, star, me>>),
                        PathOf(<<users, id>>), PathOf(<<users, name>>) },
             mwArgs \in {<<>>, <<<<"x", lastReg.n + 1>>>>} :
             Handle(lastReg.n + 1, method, path, mwArgs)
    \/ \E method \in Methods,
          path \in { PathOf(<<users>>), <<"/">> \o PathOf(<<users>>), PathOf(<<users, n99>>),
                     PathOf(<<users, n99, me>>) },
          iter \in MethodOrders :
          Lookup(method, path, iter)

SpecEdge == Init /\ [][NextEdge]_vars

\* C22, as stated: a registration whose pattern has a segment after a
\* wildcard segment fails, and no node of the tree lies beneath a wildcard
\* node.
C22_AsStated ==
    /\ (lastReg.n > 0 /\ ~WellFormed(lastReg.parts)) => lastReg.panic
    /\ \A n \in 1..Len(nodes) :
          IsWildcard(nodes[n].path)
          => (nodes[n].children = <<>> /\ nodes[n].param = 0 /\ nodes[n].wildcard = 0)

\* the two patterns have wildcards of different names at the same position
WildcardConflict(a, b) ==
    \E k \in 1..Len(a) :
        /\ k <= Len(b)
        /\ SubSeq(a, 1, k - 1) = SubSeq(b, 1, k - 1)
        /\ IsWildcard(a[k]) /\ IsWildcard(b[k]) /\ a[k] # b[k]

\* C23, as stated: a registration with a wildcard segment at a position where
\* a registered route has a wildcard of another name fails.
C23_AsStated ==
    (lastReg.n > 0 /\ \E i \in 1..Len(routes) : WildcardConflict(routes[i].parts, lastReg.parts))
    => lastReg.panic

\* C26, as stated: the handler a lookup returns comes with the route
\* middleware it was registered with, whatever was registered after it for
\* other methods on the same path and for other paths.
C26_AsStated ==
    (lk.valid /\ lk.h # NilHandler)
    => \E i \in Live : routes[i].h = lk.h /\ Elems(arrays, lk.mw) = routes[i].mw

\* C27, as stated: splitPath("//users") is the empty segment followed by
\* "users", and a lookup of //users does not reach a route registered as
\* /users.
C27_AsStated ==
    (lk.valid /\ lk.path = <<"/", "/">> \o users)
    => /\ splitPath(lk.path) = <<<<>>, users>>
       /\ lk.h = NilHandler

\* C27, amended: splitPath removes every leading and every trailing slash,
\* so "//users" tokenizes to ["users"] and a lookup of //users returns what
\* the lookup of /users returns.
C27_TrimsAllSlashes ==
    (lk.valid /\ lk.path = <<"/", "/">> \o users)
    => /\ splitPath(lk.path) = <<users>>
       /\ \A iter \in MethodOrders :
             /\ lookup(nodes, lk.method, PathOf(<<users>>), <<>>, iter).h = lk.h
             /\ lookup(nodes, lk.method, PathOf(<<users>>), <<>>, iter).params = lk.params

\* the lookup of //users has returned the handler registered for /users
C27_Witness ==
    /\ lk.valid /\ lk.path = <<"/", "/">> \o users
    /\ \E i \in Live : routes[i].parts = <<users>> /\ routes[i].h = lk.h

RECURSIVE WalkPattern(_, _, _, _)
\* the node that the segments parts[i..] of a pattern lead to from node n: a
\* static segment to the child of that label, a parameter segment to the
\* parameter child, a wildcard segment to the wildcard child; 0 if none
WalkPattern(ns, n, parts, i) ==
    IF n = 0 \/ i > Len(parts) THEN n
    ELSE IF IsWildcard(parts[i]) THEN WalkPattern(ns, ns[n].wildcard, parts, i + 1)
    ELSE IF IsParam(parts[i]) THEN WalkPattern(ns, ns[n].param, parts, i + 1)
    ELSE WalkPattern(ns, FindChild(ns, n, parts[i]), parts, i + 1)

\* a later registration has bound the method of registration i at its node
Overwritten(i) ==
    \E j \in (i + 1)..Len(routes) :
        /\ routes[j].method = routes[i].method
        /\ WalkPattern(nodes, 1, routes[j].parts, 1) = WalkPattern(nodes, 1, routes[i].parts, 1)

\* C30: after any registrations, those that panic included, the static
\* children of every node have pairwise distinct labels, none of them a
\* parameter or a wildcard, the parameter child and the wildcard child (one
\* of each at most) are of their kind, and the handler of every registration
\* that returned and was not overwritten is bound, for its method, at the
\* node its pattern leads to.
C30_TreeWellFormed ==
    /\ \A n \in 1..Len(nodes) :
          /\ \A a, b \in 1..Len(nodes[n].children) :
                a # b => nodes[nodes[n].children[a]].path # nodes[nodes[n].children[b]].path
          /\ \A a \in 1..Len(nodes[n].children) : Rank(nodes[nodes[n].children[a]].path) = 0
          /\ nodes[n].param # 0 => IsParam(nodes[nodes[n].param].path)
          /\ nodes[n].wildcard # 0 => IsWildcard(nodes[nodes[n].wildcard].path)
    /\ \A i \in 1..Len(routes) :
          ~Overwritten(i)
          => /\ WalkPattern(nodes, 1, routes[i].parts, 1) # 0
             /\ routes[i].method \in DOMAIN nodes[WalkPattern(nodes, 1, routes[i].parts, 1)].handlers
             /\ nodes[WalkPattern(nodes, 1, routes[i].parts, 1)].handlers[routes[i].method]
                   = routes[i].h

\* POST /users/:name was refused with a conflict after GET /users/:id, whose
\* handler is still where it was bound
C30_Witness ==
    /\ lastReg.panic /\ lastReg.parts = <<users, name>>
    /\ Len(routes) = 1 /\ routes[1].parts = <<users, id>>
    /\ nodes[WalkPattern(nodes, 1, <<users, id>>, 1)].handlers[routes[1].method] = routes[1].h

----------------------------------------------------------------------------
(* SpecNested: a group, the groups nested in it, and what is registered on *)
(* them                                                                     *)

MaxChildren == 1     \* nested groups created in one run

\* Group.Group(prefix, mw...) on groups[g]
GroupGroup(g, prefix, mwArgs) ==
    /\ Setup
    /\ Len(groups) < MaxGroups + MaxChildren
    /\ groups[g].middleware.len + Len(mwArgs) <= MaxGroupMw
    /\ groups' = Append(groups, [prefix     |-> groups[g].prefix \o prefix,
                                 middleware |-> GoAppend(arrays, groups[g].middleware, mwArgs).s])
    /\ arrays' = GoAppend(arrays, groups[g].middleware, mwArgs).as
    /\ UNCHANGED <<nodes, middleware, trailingSlash, errorHandler, routes, lastReg, lk, ctxs, pool, pc,
                   req, resp, tmo, rl>>

\* api := app.Group("/api"[, m0]); then, in any order, g.Use(m_k),
\* g.Group("/a"[, c_j]) and g.GET("/a", h, x_n) on any group g
NextNested ==
    \/ RouterGroupStep
    \/ GroupUseStep
    \/ \E g \in 1..Len(groups), mwArgs \in {<<>>, <<<<"c", Len(groups) + 1>>>>} :
          GroupGroup(g, <<"/", "a">>, mwArgs)
    \/ /\ lastReg.n < MaxRoutes
       /\ \E g \in 1..Len(groups) :
             GroupHandle(g, lastReg.n + 1, "GET", <<"/", "a">>, <<<<"x", lastReg.n + 1>>>>)

SpecNested == Init /\ [][NextNested]_vars

\* the step is a call of Use, Group or Handle on groups[g]
CallOn(g) ==
    \/ GroupUse(g, <<<<"m", groups[g].middleware.len + 1>>>>)
    \/ \E mwArgs \in {<<>>, <<<<"c", Len(groups) + 1>>>>} : GroupGroup(g, <<"/", "a">>, mwArgs)
    \/ GroupHandle(g, lastReg.n + 1, "GET", <<"/", "a">>, <<<<"x", lastReg.n + 1>>>>)

\* C21, as stated: the middleware list of a group changes only through a
\* call made on that group itself; a Use, Group or route registration on its
\* parent, on its child or on a sibling leaves it as it was.
C21_AsStated ==
    [][\A g \in 1..Len(groups) :
          ~CallOn(g) =>
              Elems(arrays', groups'[g].middleware) = Elems(arrays, groups[g].middleware)]_vars

----------------------------------------------------------------------------
(* SpecSlash: slashes at the seam of a group prefix and a route path, and  *)
(* at the end of a registered path                                         *)

\* the route whose handler is the k-th of the program has been registered
Registered(k) == \E i \in 1..Len(routes) : routes[i].h.id = k

\* api := app.Group("/api/"); api.GET("/users", h1); api.GET("posts", h2);
\* app.GET("/users/", h3); app.SetTrailingSlash(mode); then requests
NextSlash ==
    \/ RouterGroup(api \o <<"/">>, <<>>)
    \/ \E g \in 1..Len(groups), k \in {1, 2} :
          /\ ~Registered(k)
          /\ GroupHandle(g, k, "GET", IF k = 1 THEN PathOf(<<users>>) ELSE <<"posts">>, <<>>)
    \/ /\ Setup
       /\ ~Registered(3)
       /\ Handle(3, "GET", PathOf(<<users>>) \o <<"/">>, <<>>)
    \/ SetTrailingSlashStep
    \/ \E w \in Sequential,
          path \in { api \o PathOf(<<users>>), api \o <<"/">> \o PathOf(<<users>>),
                     api \o PathOf(<<<<"posts">>>>), PathOf(<<users>>),
                     PathOf(<<users>>) \o <<"/">> } : Acquire(w, "GET", path)
    \/ ServeStep

SpecSlash == Init /\ [][NextSlash]_vars

\* the request of worker w ran the k-th handler of the program
Ran(w, k) == \E i \in RouteRun(w) : routes[i].h.id = k

\* C24, as stated: with the group created as Group("/api/"), the route
\* registered on it as "/users" is reached by GET /api/users, the route
\* registered as "posts" by GET /api/posts, and GET /api//users is answered 404.
C24_AsStated ==
    \A w \in Workers :
        Served(w) =>
            /\ (req[w].path = api \o PathOf(<<users>>) /\ Registered(1))
                  => (resp[w].codes = <<StatusOK>> /\ Ran(w, 1))
            /\ (req[w].path = api \o PathOf(<<<<"posts">>>>) /\ Registered(2))
                  => (resp[w].codes = <<StatusOK>> /\ Ran(w, 2))
            /\ req[w].path = api \o <<"/">> \o PathOf(<<users>>)
                  => resp[w].codes = <<StatusNotFound>>

\* C25, as stated: in mode Strict the route registered as "/users/" is reached
\* by the request /users/ and is not reached by the request /users.
C25_AsStated ==
    \A w \in Workers :
        (Served(w) /\ trailingSlash = TrailingSlashStrict /\ Registered(3)) =>
            /\ req[w].path = PathOf(<<users>>) \o <<"/">> => Ran(w, 3)
            /\ req[w].path = PathOf(<<users>>) => ~Ran(w, 3)

====
